---- MODULE Spec2Model ----
(***************************************************************************)
(* Hydration-free-energy notebooks: alchemical force construction          *)
(* (add_LJ_scaling, add_lambda_elec, create_custom_LJ, turn_off_nonbonded) *)
(* and the alchemical sampling loop that fills the reduced-potential       *)
(* matrix u_kln.                                                           *)
(*                                                                         *)
(* Conventions of the model:                                               *)
(*  - Python lists are functions over 0..n-1, so atom and exception        *)
(*    indices are the program's own (0-based).                             *)
(*  - lambda values are kept in tenths (0..10 stands for 0.0..1.0).        *)
(*  - energies are exact rationals <<numerator, denominator>> in lowest    *)
(*    terms with a positive denominator.                                   *)
(***************************************************************************)
EXTENDS Integers, Naturals, Sequences, FiniteSets, TLC

VARIABLES
    notebook,   \* which notebook is executing
    system,     \* openmm.System: the list of its forces, in getForces() order
    original,   \* the system as createSystem returned it (reference copy)
    molecule,   \* atom indices of the solute ("MOL" residue)
    solvent,    \* atom indices of the solvent ("HOH" residue)
    calls,      \* the force-construction calls the set-up cell has still to make
    pc,         \* position in the alchemical-run cells
    k_idx, n_idx, l_idx,  \* the loop indices k, n, l of the alchemical run
    parameters, \* simulation.context: its global parameters
    microstate, \* simulation.context: its microstate (an index into nodes, 0 = the loaded state)
    currentStep, \* simulation.currentStep
    reporters,  \* simulation.reporters
    files,      \* the files written so far, by name
    u_kln,      \* the reduced-potential matrix
    nodes,      \* the microstates generated so far: [parent, parameters, nsteps]
    events,     \* history: the engine calls made so far, in order
    writes,     \* history: how often each entry of u_kln was assigned
    altOrder,   \* comparison run: the order in which it visits the evaluation lambdas
    altParameters, altMicrostate, altU,  \* comparison run: its context and its matrix
    N_k,        \* analysis: the number of retained samples per state
    nequil,     \* analysis: the equilibration cutoff detectEquilibration returned
    g_ineff,    \* analysis: the statistical inefficiency g, in halves
    indices,    \* analysis: the indices subsampleCorrelatedData returned
    statistics, \* analysis: what the time-series statistics of each state's series are
    mbar,       \* analysis: the arguments MBAR was constructed with
    retained,   \* history: the indices retained for each state processed
    forcefield_name, \* system creation: the force-field name
    template,   \* system creation: the template generator
    forcefield, \* system creation: the openmm.app.ForceField
    modeller,   \* system creation: the Modeller
    omm_systems, \* system creation: the systems createSystem returned
    printed,    \* what the notebook has printed
    namespace,  \* the names that are bound in the kernel
    error       \* the exception that ended the execution, "none" while there is none

buildvars == <<notebook, system, original, molecule, solvent, calls>>
runvars == <<pc, k_idx, n_idx, l_idx, parameters, microstate, currentStep, reporters,
             files, u_kln, nodes, events, writes,
             altOrder, altParameters, altMicrostate, altU>>
enginevars == <<n_idx, l_idx, parameters, microstate, currentStep, reporters,
                files, nodes, events, writes,
                altOrder, altParameters, altMicrostate, altU>>
analysisvars == <<N_k, nequil, g_ineff, indices, statistics, mbar, retained>>
createvars == <<forcefield_name, template, forcefield, modeller, omm_systems, printed,
               namespace>>
vars == <<buildvars, runvars, analysisvars, createvars, error>>

\* the parts of the state a notebook does not have
NoAnalysis ==
    /\ N_k = << >> /\ nequil = 0 /\ g_ineff = 0 /\ indices = << >>
    /\ statistics = << >> /\ mbar = << >> /\ retained = << >>
NoCreation ==
    /\ forcefield_name = << >> /\ template = "unbound" /\ forcefield = << >>
    /\ modeller = << >> /\ omm_systems = << >> /\ printed = << >>
    /\ namespace = {}

----------------------------------------------------------------------------
(* Bounds of the model.                                                    *)

NSolute == 3
NSolvent == 2
MaxDist == 2

Notebooks == {"vdw_bulk", "elec_bulk", "elec_vac"}

\* solute atom types: [charge, sigma, epsilon]
SoluteTypes ==
    { [charge |-> 1, sigma |-> 1, epsilon |-> 1],
      [charge |-> -1, sigma |-> 3, epsilon |-> 4] }

\* the solvent is a fixed water-like molecule: an oxygen-like site followed by
\* hydrogen-like sites without Lennard-Jones parameters
SolventType(k) ==
    IF k = 0 THEN [charge |-> -2, sigma |-> 3, epsilon |-> 4]
    ELSE [charge |-> 1, sigma |-> 1, epsilon |-> 0]

\* exception kinds: a fully excluded pair (1-2, 1-3) and a scaled 1-4 pair
ExcParams(kind) ==
    IF kind = "excl"
    THEN [chargeProd |-> 0, sigma |-> 1, epsilon |-> 0]
    ELSE [chargeProd |-> -1, sigma |-> 2, epsilon |-> 2]

Dists == 1..MaxDist

----------------------------------------------------------------------------
(* Exact rational arithmetic.                                              *)

Abs(n) == IF n < 0 THEN -n ELSE n

RECURSIVE GCD(_, _)
GCD(a, b) == IF b = 0 THEN a ELSE GCD(b, a % b)

RNorm(n, d) ==
    LET g == GCD(Abs(n), Abs(d))
        s == IF d < 0 THEN -1 ELSE 1
    IN  <<(s * n) \div g, (s * d) \div g>>

RInt(n) == <<n, 1>>
RZero == <<0, 1>>
RAdd(p, q) == RNorm(p[1] * q[2] + q[1] * p[2], p[2] * q[2])
RNeg(p) == <<-p[1], p[2]>>
RSub(p, q) == RAdd(p, RNeg(q))
RMul(p, q) ==
    LET g1 == GCD(Abs(p[1]), q[2])
        g2 == GCD(Abs(q[1]), p[2])
    IN  RNorm((p[1] \div g1) * (q[1] \div g2), (p[2] \div g2) * (q[2] \div g1))
RInv(p) == RNorm(p[2], p[1])
RDiv(p, q) == RMul(p, RInv(q))

RECURSIVE IPow(_, _)
IPow(b, e) == IF e = 0 THEN 1 ELSE b * IPow(b, e - 1)

\* a power of a rational in lowest terms is in lowest terms
RPow(p, e) == <<IPow(p[1], e), IPow(p[2], e)>>

\* integer square root, exact on perfect squares
ISqrt(n) == CHOOSE s \in 0..n : s * s <= n /\ (s + 1) * (s + 1) > n

\* a lambda given in tenths, as a rational
Lam(L) == RNorm(L, 10)

----------------------------------------------------------------------------
(* Python lists as functions over 0..n-1.                                  *)

ZLen(f) == Cardinality(DOMAIN f)
ZEmpty == <<>>
ZAppend(f, e) == [i \in 0..ZLen(f) |-> IF i < ZLen(f) THEN f[i] ELSE e]

----------------------------------------------------------------------------
(* The forces of an openmm.System.                                         *)

OtherForce(t) == [type |-> t]

\* the first NonbondedForce of the system:
\*   [force for force in system.getForces() if isinstance(force, NonbondedForce)][0]
NonbondedIndex(sys) ==
    CHOOSE i \in 1..Len(sys) :
        /\ sys[i].type = "NonbondedForce"
        /\ \A j \in 1..(i - 1) : sys[j].type # "NonbondedForce"

HasNonbonded(sys) == \E i \in 1..Len(sys) : sys[i].type = "NonbondedForce"

GetNonbonded(sys) == sys[NonbondedIndex(sys)]

\* the exception index of the pair {i, j}, or -1
ExceptionOf(nb, i, j) ==
    IF \E e \in DOMAIN nb.exceptions :
           {nb.exceptions[e].p1, nb.exceptions[e].p2} = {i, j}
    THEN CHOOSE e \in DOMAIN nb.exceptions :
           {nb.exceptions[e].p1, nb.exceptions[e].p2} = {i, j}
    ELSE -1

\* the global parameters a Context created from the system starts with
ParameterNames(sys) ==
    UNION { IF "globals" \in DOMAIN sys[f]
            THEN { sys[f].globals[g].name : g \in DOMAIN sys[f].globals }
            ELSE {} : f \in 1..Len(sys) }

DefaultOf(sys, name) ==
    LET f == CHOOSE f \in 1..Len(sys) :
                 /\ "globals" \in DOMAIN sys[f]
                 /\ \E g \in DOMAIN sys[f].globals : sys[f].globals[g].name = name
        g == CHOOSE g \in DOMAIN sys[f].globals : sys[f].globals[g].name = name
    IN  sys[f].globals[g].value

ContextParameters(sys) == [name \in ParameterNames(sys) |-> DefaultOf(sys, name)]

\* a setParameter that gives the value to every global parameter
setParameter_all(ctx, name, value) == [p \in DOMAIN ctx |-> value]

setParameter(ctx, name, value) == [ctx EXCEPT ![name] = value]

----------------------------------------------------------------------------
(* Energy expressions.                                                     *)

RSqrt(p) == RNorm(ISqrt(p[1]), ISqrt(p[2]))
RHalf == RNorm(1, 2)

\* "sigma=0.5*(sigma1+sigma2);"
CombineSigma(s1, s2) == RMul(RHalf, RAdd(s1, s2))
\* "epsilon=sqrt(epsilon1*epsilon2);"
CombineEpsilon(e1, e2) == RSqrt(RMul(e1, e2))

\* "4*epsilon*((sigma/r)^12 - (sigma/r)^6);"
LJEnergy(sigma, epsilon, r) ==
    LET s == RDiv(sigma, RInt(r))
    IN  RMul(RMul(RInt(4), epsilon), RSub(RPow(s, 12), RPow(s, 6)))

\* "(lambda_sterics^softcore_a)*4*epsilon*x*(x-1.0);"
\* a soft-core energy that lacks the factor lambda_sterics^softcore_a
SoftcoreEnergy_unscaled(ctx, sigma, epsilon, r) ==
    LET lam   == ctx["lambda_sterics"]
        b     == ctx["softcore_b"][1]
        c     == ctx["softcore_c"][1]
        alpha == ctx["softcore_alpha"]
        inner == RAdd(RMul(alpha, RPow(RSub(RInt(1), lam), b)),
                      RPow(RDiv(RInt(r), sigma), c))
        x     == RInv(inner)
    IN  RMul(RMul(RMul(RInt(4), epsilon), x), RSub(x, RInt(1)))

\* "x=(sigma/reff_sterics)^6;"
\* "reff_sterics=sigma*((softcore_alpha*(1.0-lambda_sterics)^softcore_b
\*                      +(r/sigma)^softcore_c))^(1/softcore_c);"
\* For softcore_c = 6 the sixth power undoes the root: x = 1 / (alpha*... + (r/sigma)^6).
SoftcoreEnergy(ctx, sigma, epsilon, r) ==
    LET lam   == ctx["lambda_sterics"]
        a     == ctx["softcore_a"][1]
        b     == ctx["softcore_b"][1]
        c     == ctx["softcore_c"][1]
        alpha == ctx["softcore_alpha"]
        inner == RAdd(RMul(alpha, RPow(RSub(RInt(1), lam), b)),
                      RPow(RDiv(RInt(r), sigma), c))
        x     == RInv(inner)
    IN  RMul(RMul(RMul(RPow(lam, a), RMul(RInt(4), epsilon)), x),
             RSub(x, RInt(1)))

\* sum of the offsets registered for one parameter of one particle/exception
RECURSIVE OffsetSum(_, _, _, _, _)
OffsetSum(offsets, ctx, index, field, n) ==
    IF n = 0 THEN RZero
    ELSE LET o == offsets[n - 1]
         IN  RAdd(OffsetSum(offsets, ctx, index, field, n - 1),
                  IF o.index = index
                  THEN RMul(ctx[o.parameter], RInt(o[field]))
                  ELSE RZero)

\* effective NonbondedForce parameters: base value plus parameter offsets
ParticleCharge(nb, ctx, i) ==
    RAdd(RInt(nb.particles[i].charge),
         OffsetSum(nb.particleOffsets, ctx, i, "chargeScale", ZLen(nb.particleOffsets)))
ParticleSigma(nb, ctx, i) ==
    RAdd(RInt(nb.particles[i].sigma),
         OffsetSum(nb.particleOffsets, ctx, i, "sigmaScale", ZLen(nb.particleOffsets)))
ParticleEpsilon(nb, ctx, i) ==
    RAdd(RInt(nb.particles[i].epsilon),
         OffsetSum(nb.particleOffsets, ctx, i, "epsilonScale", ZLen(nb.particleOffsets)))
ExceptionChargeProd(nb, ctx, e) ==
    RAdd(RInt(nb.exceptions[e].chargeProd),
         OffsetSum(nb.exceptionOffsets, ctx, e, "chargeScale", ZLen(nb.exceptionOffsets)))
ExceptionSigma(nb, ctx, e) ==
    RAdd(RInt(nb.exceptions[e].sigma),
         OffsetSum(nb.exceptionOffsets, ctx, e, "sigmaScale", ZLen(nb.exceptionOffsets)))
ExceptionEpsilon(nb, ctx, e) ==
    RAdd(RInt(nb.exceptions[e].epsilon),
         OffsetSum(nb.exceptionOffsets, ctx, e, "epsilonScale", ZLen(nb.exceptionOffsets)))

\* Lennard-Jones energy of the pair {i, j} at distance r in a NonbondedForce:
\* an exception pair uses the exception's parameters, any other pair the
\* Lorentz-Berthelot combination of the two particles' parameters
NonbondedLJ(nb, ctx, i, j, r) ==
    LET exc == ExceptionOf(nb, i, j)
    IN  IF exc # -1
        THEN LJEnergy(ExceptionSigma(nb, ctx, exc), ExceptionEpsilon(nb, ctx, exc), r)
        ELSE LJEnergy(CombineSigma(ParticleSigma(nb, ctx, i), ParticleSigma(nb, ctx, j)),
                      CombineEpsilon(ParticleEpsilon(nb, ctx, i), ParticleEpsilon(nb, ctx, j)),
                      r)

\* charge product of the pair {i, j} in a NonbondedForce (the coefficient of
\* its Coulomb term)
NonbondedChargeProd(nb, ctx, i, j) ==
    LET exc == ExceptionOf(nb, i, j)
    IN  IF exc # -1
        THEN ExceptionChargeProd(nb, ctx, exc)
        ELSE RMul(ParticleCharge(nb, ctx, i), ParticleCharge(nb, ctx, j))

\* a CustomNonbondedForce acts on a pair unless it is excluded or, when
\* interaction groups exist, no group joins the two atoms
CustomNonbondedActs(f, i, j) ==
    /\ ~ \E x \in DOMAIN f.exclusions : {f.exclusions[x][1], f.exclusions[x][2]} = {i, j}
    /\ \/ ZLen(f.groups) = 0
       \/ \E g \in DOMAIN f.groups :
              \/ i \in f.groups[g][1] /\ j \in f.groups[g][2]
              \/ j \in f.groups[g][1] /\ i \in f.groups[g][2]

CustomNonbondedLJ(f, ctx, i, j, r) ==
    IF ~ CustomNonbondedActs(f, i, j) THEN RZero
    ELSE LET sigma   == CombineSigma(RInt(f.particles[i].sigma), RInt(f.particles[j].sigma))
             epsilon == CombineEpsilon(RInt(f.particles[i].epsilon),
                                       RInt(f.particles[j].epsilon))
         IN  IF f.energy = "softcore"
             THEN SoftcoreEnergy(ctx, sigma, epsilon, r)
             ELSE LJEnergy(sigma, epsilon, r)

RECURSIVE CustomBondLJ(_, _, _, _, _)
CustomBondLJ(f, i, j, r, n) ==
    IF n = 0 THEN RZero
    ELSE LET b == f.bonds[n - 1]
         IN  RAdd(CustomBondLJ(f, i, j, r, n - 1),
                  IF {b.p1, b.p2} = {i, j}
                  THEN LJEnergy(RInt(b.sigma), RInt(b.epsilon), r)
                  ELSE RZero)

ForceLJ(f, ctx, i, j, r) ==
    CASE f.type = "NonbondedForce"       -> NonbondedLJ(f, ctx, i, j, r)
      [] f.type = "CustomNonbondedForce" -> CustomNonbondedLJ(f, ctx, i, j, r)
      [] f.type = "CustomBondForce"      -> CustomBondLJ(f, i, j, r, ZLen(f.bonds))
      [] OTHER                           -> RZero

\* Lennard-Jones energy of the pair {i, j} at distance r, summed over the
\* forces of the system
RECURSIVE SystemLJ(_, _, _, _, _, _)
SystemLJ(sys, ctx, i, j, r, n) ==
    IF n = 0 THEN RZero
    ELSE RAdd(SystemLJ(sys, ctx, i, j, r, n - 1), ForceLJ(sys[n], ctx, i, j, r))

PairLJ(sys, ctx, i, j, r) == SystemLJ(sys, ctx, i, j, r, Len(sys))

----------------------------------------------------------------------------
(* The force-construction functions of the notebooks.                      *)

ZFromSeq(q) == [i \in 0..(Len(q) - 1) |-> q[i + 1]]

\* a schedule that is not in ascending order
lambda_values_unordered == ZFromSeq(<<0, 1, 2, 3, 4, 6, 5, 7, 8, 9, 10>>)

\* lambda_values = [0.0, 0.1, 0.2, 0.3, 0.4, 0.5, 0.6, 0.7, 0.8, 0.9, 1.0], in tenths
lambda_values == ZFromSeq(<<0, 1, 2, 3, 4, 5, 6, 7, 8, 9, 10>>)
n_lambda == ZLen(lambda_values)

\* a copy that hands the two per-particle parameters over in the other order
CopyParticles_swapped(nb) ==
    [i \in DOMAIN nb.particles |->
        [sigma |-> nb.particles[i].epsilon, epsilon |-> nb.particles[i].sigma]]

\* "for atom_i in range(nonbonded.getNumParticles()): intermol_LJ.addParticle([sigma, epsilon])"
CopyParticles(nb) ==
    [i \in DOMAIN nb.particles |->
        [sigma |-> nb.particles[i].sigma, epsilon |-> nb.particles[i].epsilon]]

\* "for exception_i in range(nonbonded.getNumExceptions()): intermol_LJ.addExclusion(atom_i, atom_j)"
CopyExclusions(nb) ==
    [e \in DOMAIN nb.exceptions |-> <<nb.exceptions[e].p1, nb.exceptions[e].p2>>]

\* "if atom_i in molecule and atom_j in molecule: intramol_LJ.addBond(atom_i, atom_j, [sigma, epsilon])"
RECURSIVE IntramolecularBonds(_, _, _)
IntramolecularBonds(nb, mol, n) ==
    IF n = 0 THEN ZEmpty
    ELSE LET x    == nb.exceptions[n - 1]
             rest == IntramolecularBonds(nb, mol, n - 1)
         IN  IF x.p1 \in mol /\ x.p2 \in mol
             THEN ZAppend(rest, [p1 |-> x.p1, p2 |-> x.p2,
                                 sigma |-> x.sigma, epsilon |-> x.epsilon])
             ELSE rest

intramol_LJ(nb, mol, force_group) ==
    [type       |-> "CustomBondForce",
     energy     |-> "LJ",
     bonds      |-> IntramolecularBonds(nb, mol, ZLen(nb.exceptions)),
     forceGroup |-> force_group]

intermol_LJ(nb, mol, solv, energy, globals, force_group) ==
    [type                   |-> "CustomNonbondedForce",
     energy                 |-> energy,
     globals                |-> globals,
     perParticle            |-> <<"sigma", "epsilon">>,
     cutoff                 |-> nb.cutoff,
     method                 |-> "CutoffPeriodic",
     useLongRangeCorrection |-> nb.useDispersionCorrection,
     groups                 |-> ZFromSeq(<< <<mol, solv>> >>),
     forceGroup             |-> force_group,
     particles              |-> CopyParticles(nb),
     exclusions             |-> CopyExclusions(nb)]

SoftcoreGlobals(lambda_value) ==
    ZFromSeq(<< [name |-> "lambda_sterics", value |-> Lam(lambda_value)],
                [name |-> "softcore_a", value |-> RInt(1)],
                [name |-> "softcore_b", value |-> RInt(1)],
                [name |-> "softcore_c", value |-> RInt(6)],
                [name |-> "softcore_alpha", value |-> RNorm(5, 10)] >>)

\* add_LJ_scaling(system, molecule, solvent, lambda_value, force_group_1=6, force_group_2=5)
add_LJ_scaling(sys, mol, solv, lambda_value) ==
    LET nb == GetNonbonded(sys)
    IN  Append(Append(sys,
                      intermol_LJ(nb, mol, solv, "softcore",
                                  SoftcoreGlobals(lambda_value), 6)),
               intramol_LJ(nb, mol, 5))

\* a create_custom_LJ that leaves out the intramolecular CustomBondForce
create_custom_LJ_without_bonds(sys, mol, solv) ==
    Append(sys, intermol_LJ(GetNonbonded(sys), mol, solv, "LJ", ZEmpty, 5))

\* create_custom_LJ(system, molecule, solvent, force_group_1=5, force_group_2=6)
create_custom_LJ(sys, mol, solv) ==
    LET nb == GetNonbonded(sys)
    IN  Append(Append(sys, intermol_LJ(nb, mol, solv, "LJ", ZEmpty, 5)),
               intramol_LJ(nb, mol, 6))

\* create_custom_LJ(system, molecule, force_group=5) of the vacuum notebook
create_custom_LJ_vacuum(sys, mol) ==
    Append(sys, intramol_LJ(GetNonbonded(sys), mol, 5))

\* "for atom_i in molecule: nonbonded.addParticleParameterOffset(
\*      "lambda_electrostatics", atom_i, charge, 0.0, 0.0)"
RECURSIVE ParticleOffsets(_, _, _)
ParticleOffsets(nb, mol, n) ==
    IF n = 0 THEN nb.particleOffsets
    ELSE LET rest == ParticleOffsets(nb, mol, n - 1)
         IN  IF (n - 1) \in mol
             THEN ZAppend(rest, [parameter |-> "lambda_electrostatics", index |-> n - 1,
                                 chargeScale |-> nb.particles[n - 1].charge,
                                 sigmaScale |-> 0, epsilonScale |-> 0])
             ELSE rest

\* "if atom_i in molecule and atom_j in molecule: nonbonded.addExceptionParameterOffset(
\*      "lambda_electrostatics", exception_i, charge, 0.0, 0.0)"
RECURSIVE ExceptionOffsets(_, _, _)
ExceptionOffsets(nb, mol, n) ==
    IF n = 0 THEN nb.exceptionOffsets
    ELSE LET x    == nb.exceptions[n - 1]
             rest == ExceptionOffsets(nb, mol, n - 1)
         IN  IF x.p1 \in mol /\ x.p2 \in mol
             THEN ZAppend(rest, [parameter |-> "lambda_electrostatics", index |-> n - 1,
                                 chargeScale |-> x.chargeProd,
                                 sigmaScale |-> 0, epsilonScale |-> 0])
             ELSE rest

\* add_lambda_elec(system, molecule, lambda_value)
add_lambda_elec(sys, mol, lambda_value) ==
    LET nb == GetNonbonded(sys)
    IN  [sys EXCEPT ![NonbondedIndex(sys)] =
            [nb EXCEPT
                !.globals = ZAppend(nb.globals, [name |-> "lambda_electrostatics",
                                                 value |-> Lam(lambda_value)]),
                !.particleOffsets = ParticleOffsets(nb, mol, ZLen(nb.particles)),
                !.exceptionOffsets = ExceptionOffsets(nb, mol, ZLen(nb.exceptions))]]

\* a turn_off_nonbonded that zeroes epsilon but leaves the charge of the atoms
TurnOffParticles_keep_charge(nb, mol) ==
    [i \in DOMAIN nb.particles |->
        IF i \in mol
        THEN [charge |-> nb.particles[i].charge, sigma |-> nb.particles[i].sigma,
              epsilon |-> 0]
        ELSE nb.particles[i]]

\* "nonbonded.setParticleParameters(atom_i, 0.0, sigma, 0.0)" for the atoms of the molecule
TurnOffParticles(nb, mol) ==
    [i \in DOMAIN nb.particles |->
        IF i \in mol
        THEN [charge |-> 0, sigma |-> nb.particles[i].sigma, epsilon |-> 0]
        ELSE nb.particles[i]]

\* a turn_off_nonbonded that zeroes all three parameters of the solute's exceptions
TurnOffExceptions_zero_sigma(nb, mol) ==
    [e \in DOMAIN nb.exceptions |->
        LET x == nb.exceptions[e]
        IN  IF x.p1 \in mol /\ x.p2 \in mol
            THEN [p1 |-> x.p1, p2 |-> x.p2, chargeProd |-> 0, sigma |-> 0, epsilon |-> 0]
            ELSE x]

\* "nonbonded.setExceptionParameters(exception_i, atom_i, atom_j, 0.0, sigma, 0.0)"
\* for the exceptions with both atoms in the molecule
TurnOffExceptions(nb, mol) ==
    [e \in DOMAIN nb.exceptions |->
        LET x == nb.exceptions[e]
        IN  IF x.p1 \in mol /\ x.p2 \in mol
            THEN [p1 |-> x.p1, p2 |-> x.p2, chargeProd |-> 0,
                  sigma |-> x.sigma, epsilon |-> 0]
            ELSE x]

\* turn_off_nonbonded(system, molecule)
turn_off_nonbonded(sys, mol) ==
    LET nb == GetNonbonded(sys)
    IN  [sys EXCEPT ![NonbondedIndex(sys)] =
            [nb EXCEPT !.particles = TurnOffParticles(nb, mol),
                       !.exceptions = TurnOffExceptions(nb, mol)]]

----------------------------------------------------------------------------
(* The system createSystem returns, and the set-up cell of each notebook.  *)

IntraPairs(atoms) == { p \in atoms \X atoms : p[1] < p[2] }

\* The solute is a chain 0-1-2-...: directly bonded atoms are always an excluded
\* pair; every other solute pair may be no exception, excluded, or a scaled pair.
\* All pairs of the water-like solvent molecule are excluded.
FreePairs(atoms) == { p \in IntraPairs(atoms) : p[2] > p[1] + 1 }

\* the exceptions of the chosen intramolecular pairs, ordered by atom indices
RECURSIVE ExceptionList(_, _, _)
ExceptionList(kinds, natoms, p) ==
    IF p = 0 THEN ZEmpty
    ELSE LET pair == <<(p - 1) \div natoms, (p - 1) % natoms>>
             rest == ExceptionList(kinds, natoms, p - 1)
         IN  IF pair \in DOMAIN kinds /\ kinds[pair] # "none"
             THEN ZAppend(rest, [p1 |-> pair[1], p2 |-> pair[2],
                                 chargeProd |-> ExcParams(kinds[pair]).chargeProd,
                                 sigma |-> ExcParams(kinds[pair]).sigma,
                                 epsilon |-> ExcParams(kinds[pair]).epsilon])
             ELSE rest

\* prmtop.createSystem(nonbondedMethod=PME, nonbondedCutoff=9.0 * angstrom, ...) and,
\* in the bulk notebooks, system.addForce(barostat);
\* prmtop.createSystem(nonbondedMethod=NoCutoff, ...) in the vacuum notebook
createSystem(nbk, types, kinds) ==
    LET natoms == Cardinality(DOMAIN types)
        nb == [type |-> "NonbondedForce",
               particles |-> types,
               exceptions |-> ExceptionList(kinds, natoms, natoms * natoms),
               globals |-> ZEmpty,
               particleOffsets |-> ZEmpty,
               exceptionOffsets |-> ZEmpty,
               method |-> IF nbk = "elec_vac" THEN "NoCutoff" ELSE "PME",
               cutoff |-> IF nbk = "elec_vac" THEN 10 ELSE 9,
               useDispersionCorrection |-> TRUE]
        base == << OtherForce("HarmonicBondForce"), OtherForce("HarmonicAngleForce"),
                   OtherForce("PeriodicTorsionForce"), nb,
                   OtherForce("CMMotionRemover") >>
    IN  IF nbk = "elec_vac" THEN base
        ELSE Append(base, OtherForce("MonteCarloBarostat"))

\* a set-up cell that switches the base interactions off before it copies them
SetupCalls_turn_off_first(nbk) ==
    IF nbk = "vdw_bulk"
    THEN << "turn_off_nonbonded", "add_LJ_scaling" >>
    ELSE << "turn_off_nonbonded", "add_lambda_elec", "create_custom_LJ" >>

\* the calls of the set-up cell, in cell order
SetupCalls(nbk) ==
    IF nbk = "vdw_bulk"
    THEN << "add_LJ_scaling", "turn_off_nonbonded" >>
    ELSE << "add_lambda_elec", "create_custom_LJ", "turn_off_nonbonded" >>

\* the lambda_value argument of the set-up cell
SetupLambda(nbk) == IF nbk = "elec_vac" THEN 10 ELSE 0

InitBuild ==
    /\ notebook \in Notebooks
    /\ molecule = 0..(NSolute - 1)
    /\ solvent = IF notebook = "elec_vac" THEN {}
                 ELSE NSolute..(NSolute + NSolvent - 1)
    /\ \E mtypes \in [molecule -> SoluteTypes],
          mkinds \in [FreePairs(molecule) -> {"none", "excl", "one4"}] :
          system = createSystem(notebook,
                                [i \in molecule \cup solvent |->
                                    IF i \in molecule THEN mtypes[i]
                                    ELSE SolventType(i - NSolute)],
                                [p \in IntraPairs(molecule) \cup IntraPairs(solvent) |->
                                    IF p \in FreePairs(molecule) THEN mkinds[p]
                                    ELSE "excl"])
    /\ original = system
    /\ calls = SetupCalls(notebook)
    /\ pc = "setup"
    /\ k_idx = 0 /\ n_idx = 0 /\ l_idx = 0
    /\ parameters = << >> /\ microstate = 0 /\ currentStep = 0
    /\ reporters = << >> /\ files = << >> /\ u_kln = << >>
    /\ nodes = << >> /\ events = << >> /\ writes = << >>
    /\ altOrder = << >> /\ altParameters = << >> /\ altMicrostate = 0 /\ altU = << >>
    /\ NoAnalysis /\ NoCreation /\ error = "none"

Call_add_LJ_scaling ==
    /\ calls # << >> /\ Head(calls) = "add_LJ_scaling"
    /\ HasNonbonded(system)
    /\ system' = add_LJ_scaling(system, molecule, solvent, SetupLambda(notebook))
    /\ calls' = Tail(calls)
    /\ UNCHANGED <<notebook, original, molecule, solvent, runvars,
                   analysisvars, createvars, error>>

Call_add_lambda_elec ==
    /\ calls # << >> /\ Head(calls) = "add_lambda_elec"
    /\ HasNonbonded(system)
    /\ system' = add_lambda_elec(system, molecule, SetupLambda(notebook))
    /\ calls' = Tail(calls)
    /\ UNCHANGED <<notebook, original, molecule, solvent, runvars,
                   analysisvars, createvars, error>>

Call_create_custom_LJ ==
    /\ calls # << >> /\ Head(calls) = "create_custom_LJ"
    /\ HasNonbonded(system)
    /\ notebook = "elec_bulk"
    /\ system' = create_custom_LJ(system, molecule, solvent)
    /\ calls' = Tail(calls)
    /\ UNCHANGED <<notebook, original, molecule, solvent, runvars,
                   analysisvars, createvars, error>>

Call_create_custom_LJ_vacuum ==
    /\ calls # << >> /\ Head(calls) = "create_custom_LJ"
    /\ HasNonbonded(system)
    /\ notebook = "elec_vac"
    /\ system' = create_custom_LJ_vacuum(system, molecule)
    /\ calls' = Tail(calls)
    /\ UNCHANGED <<notebook, original, molecule, solvent, runvars,
                   analysisvars, createvars, error>>

Call_turn_off_nonbonded ==
    /\ calls # << >> /\ Head(calls) = "turn_off_nonbonded"
    /\ HasNonbonded(system)
    /\ system' = turn_off_nonbonded(system, molecule)
    /\ calls' = Tail(calls)
    /\ UNCHANGED <<notebook, original, molecule, solvent, runvars,
                   analysisvars, createvars, error>>

NextBuild ==
    \/ Call_add_LJ_scaling
    \/ Call_add_lambda_elec
    \/ Call_create_custom_LJ
    \/ Call_create_custom_LJ_vacuum
    \/ Call_turn_off_nonbonded

SpecBuild == InitBuild /\ [][NextBuild]_vars

----------------------------------------------------------------------------
(* The force-construction functions on systems with any number of          *)
(* NonbondedForces.                                                        *)

\* the largest number of NonbondedForces of a system
MaxNonbonded == 2

\* the system with cnt NonbondedForces in place of its one
WithNonbondedForces(sys, cnt) ==
    LET rest == SelectSeq(sys, LAMBDA f : f.type # "NonbondedForce")
    IN  rest \o [i \in 1..cnt |-> GetNonbonded(sys)]

InitForces ==
    /\ notebook \in Notebooks
    /\ molecule = 0..(NSolute - 1)
    /\ solvent = IF notebook = "elec_vac" THEN {}
                 ELSE NSolute..(NSolute + NSolvent - 1)
    /\ \E mtypes \in [molecule -> SoluteTypes], cnt \in 0..MaxNonbonded :
          system = WithNonbondedForces(
                       createSystem(notebook,
                                    [i \in molecule \cup solvent |->
                                        IF i \in molecule THEN mtypes[i]
                                        ELSE SolventType(i - NSolute)],
                                    [p \in IntraPairs(molecule) \cup IntraPairs(solvent) |->
                                        IF p \in FreePairs(molecule) THEN "one4"
                                        ELSE "excl"]),
                       cnt)
    /\ original = system
    /\ calls = SetupCalls(notebook)
    /\ pc = "setup"
    /\ k_idx = 0 /\ n_idx = 0 /\ l_idx = 0
    /\ parameters = << >> /\ microstate = 0 /\ currentStep = 0
    /\ reporters = << >> /\ files = << >> /\ u_kln = << >>
    /\ nodes = << >> /\ events = << >> /\ writes = << >>
    /\ altOrder = << >> /\ altParameters = << >> /\ altMicrostate = 0 /\ altU = << >>
    /\ NoAnalysis /\ NoCreation /\ error = "none"

\* "[force for force in system.getForces() if isinstance(force, NonbondedForce)][0]"
\* on a system without a NonbondedForce: the list is empty, [0] raises
\* IndexError, and the set-up cell ends there
Call_raises_IndexError ==
    /\ calls # << >> /\ error = "none"
    /\ ~HasNonbonded(system)
    /\ error' = "IndexError"
    /\ UNCHANGED <<buildvars, runvars, analysisvars, createvars>>

SpecForces == InitForces /\ [][NextBuild \/ Call_raises_IndexError]_vars

----------------------------------------------------------------------------
(* The alchemical run: the cells under "03. Alchemical Run".               *)
(* A microstate is identified by how it was produced: the microstate the   *)
(* integrator started from, the context parameters in effect and the       *)
(* number of steps taken (for a fixed random stream of the integrator).    *)

\* output_freq, equil_steps and prod_steps, scaled down
output_freq == 1
equil_steps == 2
prod_steps == 3

\* total_iterations = int(prod_steps / output_freq)
total_iterations == prod_steps \div output_freq

\* the control parameter the loop of the notebook sets
ControlParameter(nbk) ==
    IF nbk = "vdw_bulk" THEN "lambda_sterics" ELSE "lambda_electrostatics"

\* the file names f"{work_folder}/..."
FileName(stem, index, ext) == [stem |-> stem, index |-> index, ext |-> ext]
EquilibrationFile == FileName("equilibration", -1, "xml")
PotentialFile(nbk) ==
    FileName(CASE nbk = "vdw_bulk" -> "reduced_vdw_potential"
               [] nbk = "elec_bulk" -> "reduced_elec_bulk_potential"
               [] nbk = "elec_vac" -> "reduced_elec_vacuum_potential",
             -1, "npy")

\* one element of np.zeros(...)
np_zero == [microstate |-> -1, parameters |-> << >>]

\* np.zeros((n_lambda, n_lambda, total_iterations))
np_zeros(d1, d2, d3) ==
    [a \in 0..(d1 - 1) |-> [b \in 0..(d2 - 1) |-> [c \in 0..(d3 - 1) |-> np_zero]]]

\* simulation.context.getState(getEnergy=True).getPotentialEnergy() / kT: the
\* potential energy of a microstate under the parameters of the context
ReducedPotential(m, params) == [microstate |-> m, parameters |-> params]

\* the microstate simulation.step(nsteps) produces
Microstate(parent, params, nsteps) ==
    [parent |-> parent, parameters |-> params, nsteps |-> nsteps]

Known(tbl, node) == \E i \in 1..Len(tbl) : tbl[i] = node
IndexOf(tbl, node) ==
    IF Known(tbl, node) THEN CHOOSE i \in 1..Len(tbl) : tbl[i] = node
    ELSE Len(tbl) + 1
Insert(tbl, node) == IF Known(tbl, node) THEN tbl ELSE Append(tbl, node)

\* the number of reports a reporter makes while the step counter goes from
\* step0 to step0 + nsteps
ReportsDue(step0, nsteps, interval) ==
    ((step0 + nsteps) \div interval) - (step0 \div interval)

\* simulation.step(nsteps), in the run and in the comparison run
step(nsteps) ==
    LET node    == Microstate(microstate, parameters, nsteps)
        tbl     == Insert(nodes, node)
        altNode == Microstate(altMicrostate, altParameters, nsteps)
    IN  /\ microstate' = IndexOf(nodes, node)
        /\ altMicrostate' = IndexOf(tbl, altNode)
        /\ nodes' = Insert(tbl, altNode)
        /\ currentStep' = currentStep + nsteps
        /\ files' = [f \in DOMAIN files |->
                        IF \E i \in 1..Len(reporters) : reporters[i].file = f
                        THEN LET r == CHOOSE i \in 1..Len(reporters) : reporters[i].file = f
                             IN  files[f] + ReportsDue(currentStep, nsteps,
                                                       reporters[r].reportInterval)
                        ELSE files[f]]

\* one entry of the history of engine calls
Event(call, phase, kk, nn, ll) ==
    [call |-> call, phase |-> phase, k |-> kk, n |-> nn, l |-> ll,
     lam |-> parameters'[ControlParameter(notebook)],
     microstate |-> microstate']

\* the orders in which the comparison run visits the evaluation lambdas
NumRotations == 1
Orders ==
    { [i \in DOMAIN lambda_values |-> i],
      [i \in DOMAIN lambda_values |-> n_lambda - 1 - i] }
    \cup { [i \in DOMAIN lambda_values |-> (i + s) % n_lambda] : s \in 1..NumRotations }

\* the system the run is made with
RunTypes == [i \in 0..(NSolute + NSolvent - 1) |->
                IF i >= NSolute THEN SolventType(i - NSolute)
                ELSE IF i % 2 = 0 THEN [charge |-> 1, sigma |-> 1, epsilon |-> 1]
                ELSE [charge |-> -1, sigma |-> 3, epsilon |-> 4]]

ApplyCall(name, nbk, sys, mol, solv) ==
    CASE name = "add_LJ_scaling" -> add_LJ_scaling(sys, mol, solv, SetupLambda(nbk))
      [] name = "add_lambda_elec" -> add_lambda_elec(sys, mol, SetupLambda(nbk))
      [] name = "create_custom_LJ" ->
            IF nbk = "elec_vac" THEN create_custom_LJ_vacuum(sys, mol)
            ELSE create_custom_LJ(sys, mol, solv)
      [] name = "turn_off_nonbonded" -> turn_off_nonbonded(sys, mol)

\* the set-up cell as a whole
RECURSIVE SetupCell(_, _, _, _, _)
SetupCell(cs, nbk, sys, mol, solv) ==
    IF cs = << >> THEN sys
    ELSE SetupCell(Tail(cs), nbk, ApplyCall(Head(cs), nbk, sys, mol, solv), mol, solv)

\* the constants of the equilibration cell: "output_freq = 5000; equil_steps = 100000"
equilibration_output_freq == 1
equilibration_steps == 2

\* the set-up cell has made the system,
\* "with open(f'{work_folder}/system.xml', 'w') as f: f.write(XmlSerializer.serialize(system))"
\* has saved it, and
\* "simulation = Simulation(...); simulation.context.setPositions(inpcrd.positions)"
InitRun ==
    /\ notebook \in Notebooks
    /\ molecule = 0..(NSolute - 1)
    /\ solvent = IF notebook = "elec_vac" THEN {}
                 ELSE NSolute..(NSolute + NSolvent - 1)
    /\ original = createSystem(notebook,
                               [i \in molecule \cup solvent |-> RunTypes[i]],
                               [p \in IntraPairs(molecule) \cup IntraPairs(solvent) |->
                                   IF p \in FreePairs(molecule) THEN "one4" ELSE "excl"])
    /\ system = SetupCell(SetupCalls(notebook), notebook, original, molecule, solvent)
    /\ calls = << >>
    /\ pc = "minimize"
    /\ k_idx = 0 /\ n_idx = 0 /\ l_idx = 0
    /\ parameters = ContextParameters(system)
    /\ microstate = 0
    /\ currentStep = 0
    /\ reporters = << >>
    /\ files = [f \in {FileName("system", -1, "xml")} |-> system]
    /\ u_kln = << >>
    /\ nodes = << >>
    /\ events = << >>
    /\ writes = << >>
    /\ altOrder \in Orders
    /\ altParameters = parameters
    /\ altMicrostate = 0
    /\ altU = << >>
    /\ NoAnalysis /\ NoCreation /\ error = "none"

\* "simulation.minimizeEnergy(tolerance=..., maxIterations=5000)": the microstate
\* the minimiser reaches from the current one is recorded with nsteps = -1
MinimizeEnergy ==
    /\ pc = "minimize"
    /\ LET node == Microstate(microstate, parameters, -1)
           tbl == Insert(nodes, node)
           altNode == Microstate(altMicrostate, altParameters, -1)
       IN  /\ microstate' = IndexOf(nodes, node)
           /\ altMicrostate' = IndexOf(tbl, altNode)
           /\ nodes' = Insert(tbl, altNode)
    /\ pc' = "equil_reporters"
    /\ UNCHANGED <<buildvars, analysisvars, createvars, error, k_idx, n_idx, l_idx,
                   parameters, currentStep, reporters, files, u_kln, writes, events,
                   altOrder, altParameters, altU>>

\* "dcd_reporter = DCDReporter(f'{work_folder}/equilibration.dcd', output_freq)
\*  state_reporter = StateDataReporter(f'{work_folder}/equilibration.log', output_freq, ...)
\*  simulation.reporters.append(dcd_reporter); simulation.reporters.append(state_reporter)"
AddEquilibrationReporters ==
    /\ pc = "equil_reporters"
    /\ LET dcd == FileName("equilibration", -1, "dcd")
           log == FileName("equilibration", -1, "log")
       IN  /\ reporters' = Append(Append(reporters,
                                         [kind |-> "DCDReporter", file |-> dcd,
                                          reportInterval |-> equilibration_output_freq]),
                                  [kind |-> "StateDataReporter", file |-> log,
                                   reportInterval |-> equilibration_output_freq])
           /\ files' = [f \in DOMAIN files \cup {dcd, log} |->
                           IF f \in {dcd, log} THEN 0 ELSE files[f]]
    /\ pc' = "initial_equil"
    /\ UNCHANGED <<buildvars, analysisvars, createvars, error, k_idx, n_idx, l_idx,
                   parameters, microstate, currentStep, u_kln, nodes, writes, events,
                   altOrder, altParameters, altMicrostate, altU>>

\* "simulation.step(equil_steps)" of the equilibration
InitialEquilibration ==
    /\ pc = "initial_equil"
    /\ step(equilibration_steps)
    /\ pc' = "save_equil"
    /\ UNCHANGED <<buildvars, analysisvars, createvars, error, k_idx, n_idx, l_idx,
                   parameters, reporters, u_kln, writes, events,
                   altOrder, altParameters, altU>>

\* "simulation.saveState(f'{work_folder}/equilibration.xml')" and the
\* equilibration.pdb written with it
SaveEquilibrationState ==
    /\ pc = "save_equil"
    /\ LET pdb == FileName("equilibration", -1, "pdb")
       IN  files' = [f \in DOMAIN files \cup {EquilibrationFile, pdb} |->
                        IF f = EquilibrationFile
                        THEN [microstate |-> microstate, parameters |-> parameters]
                        ELSE IF f = pdb THEN [microstate |-> microstate]
                        ELSE files[f]]
    /\ pc' = "run_constants"
    /\ UNCHANGED <<buildvars, analysisvars, createvars, error, k_idx, n_idx, l_idx,
                   parameters, microstate, currentStep, reporters, u_kln, nodes, writes,
                   events, altOrder, altParameters, altMicrostate, altU>>

\* "lambda_values = [...]; n_lambda = len(lambda_values); output_freq = 500;
\*  equil_steps = 50000; prod_steps = 100000;
\*  total_iterations = int(prod_steps / output_freq)
\*  u_kln = np.zeros((n_lambda, n_lambda, total_iterations))"
RunConstants ==
    /\ pc = "run_constants"
    /\ u_kln' = np_zeros(n_lambda, n_lambda, total_iterations)
    /\ altU' = np_zeros(n_lambda, n_lambda, total_iterations)
    /\ writes' = [a \in 0..(n_lambda - 1) |-> [b \in 0..(n_lambda - 1) |->
                     [c \in 0..(total_iterations - 1) |-> 0]]]
    /\ pc' = "new_simulation"
    /\ UNCHANGED <<buildvars, analysisvars, createvars, error, k_idx, n_idx, l_idx,
                   parameters, microstate, currentStep, reporters, files, nodes, events,
                   altOrder, altParameters, altMicrostate>>

\* a run that goes on with the Simulation object of the equilibration
NewSimulation_reused ==
    /\ pc = "new_simulation"
    /\ microstate' = files[EquilibrationFile].microstate
    /\ altMicrostate' = files[EquilibrationFile].microstate
    /\ parameters' = files[EquilibrationFile].parameters
    /\ altParameters' = files[EquilibrationFile].parameters
    /\ k_idx' = 0
    /\ pc' = IF n_lambda > 0 THEN "set_lambda" ELSE "save_array"
    /\ UNCHANGED <<buildvars, analysisvars, createvars, error, n_idx, l_idx,
                   currentStep, reporters, files, u_kln, nodes, writes, events,
                   altOrder, altU>>

\* "integrator = LangevinIntegrator(...); simulation = Simulation(prmtop.topology,
\*  system, integrator, platform); simulation.loadState(f'{work_folder}/equilibration.xml')"
\* and the head of "for k, lb1 in enumerate(lambda_values)": the new Simulation
\* has no reporters and its step counter is 0
NewSimulation ==
    /\ pc = "new_simulation"
    /\ reporters' = << >>
    /\ currentStep' = 0
    /\ microstate' = files[EquilibrationFile].microstate
    /\ altMicrostate' = files[EquilibrationFile].microstate
    /\ parameters' = files[EquilibrationFile].parameters
    /\ altParameters' = files[EquilibrationFile].parameters
    /\ k_idx' = 0
    /\ pc' = IF n_lambda > 0 THEN "set_lambda" ELSE "save_array"
    /\ UNCHANGED <<buildvars, analysisvars, createvars, error, n_idx, l_idx,
                   files, u_kln, nodes, writes, events, altOrder, altU>>

\* a block head that does not set the control parameter
SetLambda_unset ==
    /\ pc = "set_lambda"
    /\ pc' = "equil"
    /\ UNCHANGED <<buildvars, analysisvars, createvars, error, k_idx, n_idx, l_idx, parameters, microstate, currentStep,
                   reporters, files, u_kln, nodes, writes,
                   altOrder, altParameters, altMicrostate, altU>>
    /\ events' = Append(events, Event("setParameter", "block", k_idx, -1, -1))

\* "for k, lb1 in enumerate(lambda_values):
\*      simulation.context.setParameter(<control parameter>, lb1)"
SetLambda ==
    /\ pc = "set_lambda"
    /\ parameters' = setParameter(parameters, ControlParameter(notebook),
                                  Lam(lambda_values[k_idx]))
    /\ altParameters' = setParameter(altParameters, ControlParameter(notebook),
                                     Lam(lambda_values[k_idx]))
    /\ pc' = "equil"
    /\ UNCHANGED <<buildvars, analysisvars, createvars, error, k_idx, n_idx, l_idx, microstate, currentStep, reporters,
                   files, u_kln, nodes, writes, altOrder, altMicrostate, altU>>
    /\ events' = Append(events, Event("setParameter", "block", k_idx, -1, -1))

\* a block without re-equilibration
ShortEquilibration_omitted ==
    /\ pc = "equil"
    /\ pc' = "add_reporters"
    /\ UNCHANGED <<buildvars, analysisvars, createvars, error, k_idx, n_idx, l_idx, parameters, microstate, currentStep,
                   reporters, files, u_kln, nodes, writes, events,
                   altOrder, altParameters, altMicrostate, altU>>

\* "simulation.step(equil_steps)"
ShortEquilibration ==
    /\ pc = "equil"
    /\ step(equil_steps)
    /\ pc' = "add_reporters"
    /\ UNCHANGED <<buildvars, analysisvars, createvars, error, k_idx, n_idx, l_idx, parameters, reporters, u_kln,
                   writes, altOrder, altParameters, altU>>
    /\ events' = Append(events, Event("step", "equil", k_idx, -1, -1))

\* "dcd_reporter = DCDReporter(...); state_reporter = StateDataReporter(...);
\*  simulation.reporters.append(dcd_reporter); simulation.reporters.append(state_reporter)"
\* and the head of "for n in range(total_iterations)"
AddReporters ==
    /\ pc = "add_reporters"
    /\ LET dcd == FileName("production", k_idx, "dcd")
           log == FileName("production", k_idx, "log")
       IN  /\ reporters' = Append(Append(reporters,
                                         [kind |-> "DCDReporter", file |-> dcd,
                                          reportInterval |-> output_freq]),
                                  [kind |-> "StateDataReporter", file |-> log,
                                   reportInterval |-> output_freq])
           /\ files' = [f \in DOMAIN files \cup {dcd, log} |->
                           IF f \in {dcd, log} THEN 0 ELSE files[f]]
    /\ n_idx' = 0
    /\ pc' = IF total_iterations > 0 THEN "prod_set" ELSE "save_state"
    /\ UNCHANGED <<buildvars, analysisvars, createvars, error, k_idx, l_idx, parameters, microstate, currentStep, u_kln,
                   nodes, writes, altOrder, altParameters, altMicrostate, altU>>
    /\ events' = Append(events, Event("reporters.append", "block", k_idx, -1, -1))

\* a production block that does not set the control parameter back
ProdSetLambda_unset ==
    /\ pc = "prod_set"
    /\ pc' = "prod_step"
    /\ UNCHANGED <<buildvars, analysisvars, createvars, error, k_idx, n_idx, l_idx, parameters, microstate, currentStep,
                   reporters, files, u_kln, nodes, writes,
                   altOrder, altParameters, altMicrostate, altU>>
    /\ events' = Append(events, Event("setParameter", "prod", k_idx, n_idx, -1))

\* "for n in range(total_iterations):
\*      simulation.context.setParameter(<control parameter>, lb1)"
ProdSetLambda ==
    /\ pc = "prod_set"
    /\ parameters' = setParameter(parameters, ControlParameter(notebook),
                                  Lam(lambda_values[k_idx]))
    /\ altParameters' = setParameter(altParameters, ControlParameter(notebook),
                                     Lam(lambda_values[k_idx]))
    /\ pc' = "prod_step"
    /\ UNCHANGED <<buildvars, analysisvars, createvars, error, k_idx, n_idx, l_idx, microstate, currentStep, reporters,
                   files, u_kln, nodes, writes, altOrder, altMicrostate, altU>>
    /\ events' = Append(events, Event("setParameter", "prod", k_idx, n_idx, -1))

\* "simulation.step(output_freq)" and the head of
\* "for l, lb2 in enumerate(lambda_values)"
ProdStep ==
    /\ pc = "prod_step"
    /\ step(output_freq)
    /\ l_idx' = 0
    /\ pc' = "eval_set"
    /\ UNCHANGED <<buildvars, analysisvars, createvars, error, k_idx, n_idx, parameters, reporters, u_kln,
                   writes, altOrder, altParameters, altU>>
    /\ events' = Append(events, Event("step", "prod", k_idx, n_idx, -1))

\* an inner loop that integrates before each evaluation
EvalSetLambda_stepping ==
    /\ pc = "eval_set"
    /\ parameters' = setParameter(parameters, ControlParameter(notebook),
                                  Lam(lambda_values[l_idx]))
    /\ altParameters' = setParameter(altParameters, ControlParameter(notebook),
                                     Lam(lambda_values[altOrder[l_idx]]))
    /\ step(output_freq)
    /\ pc' = "eval_energy"
    /\ UNCHANGED <<buildvars, analysisvars, createvars, error, k_idx, n_idx, l_idx, reporters, u_kln, writes,
                   altOrder, altU>>
    /\ events' = Append(events, Event("setParameter", "eval", k_idx, n_idx, l_idx))

\* "simulation.context.setParameter(<control parameter>, lb2)"
EvalSetLambda ==
    /\ pc = "eval_set"
    /\ parameters' = setParameter(parameters, ControlParameter(notebook),
                                  Lam(lambda_values[l_idx]))
    /\ altParameters' = setParameter(altParameters, ControlParameter(notebook),
                                     Lam(lambda_values[altOrder[l_idx]]))
    /\ pc' = "eval_energy"
    /\ UNCHANGED <<buildvars, analysisvars, createvars, error, k_idx, n_idx, l_idx, microstate, currentStep, reporters,
                   files, u_kln, nodes, writes, altOrder, altMicrostate, altU>>
    /\ events' = Append(events, Event("setParameter", "eval", k_idx, n_idx, l_idx))

\* an evaluation that stores the energy at u_kln[l, k, n]
EvalEnergy_transposed ==
    /\ pc = "eval_energy"
    /\ u_kln' = [u_kln EXCEPT ![l_idx][k_idx][n_idx] =
                     ReducedPotential(microstate, parameters)]
    /\ writes' = [writes EXCEPT ![l_idx][k_idx][n_idx] = @ + 1]
    /\ altU' = [altU EXCEPT ![altOrder[l_idx]][k_idx][n_idx] =
                   ReducedPotential(altMicrostate, altParameters)]
    /\ IF l_idx + 1 < n_lambda
       THEN /\ l_idx' = l_idx + 1
            /\ n_idx' = n_idx
            /\ pc' = "eval_set"
       ELSE /\ l_idx' = 0
            /\ n_idx' = n_idx + 1
            /\ pc' = IF n_idx + 1 < total_iterations THEN "prod_set" ELSE "save_state"
    /\ UNCHANGED <<buildvars, analysisvars, createvars, error, k_idx, parameters, microstate, currentStep, reporters,
                   files, nodes, altOrder, altParameters, altMicrostate>>
    /\ events' = Append(events, Event("getState", "eval", k_idx, n_idx, l_idx))

\* "u_kln[k, l, n] = simulation.context.getState(getEnergy=True).getPotentialEnergy() / kT"
\* and the ends of the loops over l and n
EvalEnergy ==
    /\ pc = "eval_energy"
    /\ u_kln' = [u_kln EXCEPT ![k_idx][l_idx][n_idx] =
                     ReducedPotential(microstate, parameters)]
    /\ writes' = [writes EXCEPT ![k_idx][l_idx][n_idx] = @ + 1]
    /\ altU' = [altU EXCEPT ![k_idx][altOrder[l_idx]][n_idx] =
                   ReducedPotential(altMicrostate, altParameters)]
    /\ IF l_idx + 1 < n_lambda
       THEN /\ l_idx' = l_idx + 1
            /\ n_idx' = n_idx
            /\ pc' = "eval_set"
       ELSE /\ l_idx' = 0
            /\ n_idx' = n_idx + 1
            /\ pc' = IF n_idx + 1 < total_iterations THEN "prod_set" ELSE "save_state"
    /\ UNCHANGED <<buildvars, analysisvars, createvars, error, k_idx, parameters, microstate, currentStep, reporters,
                   files, nodes, altOrder, altParameters, altMicrostate>>
    /\ events' = Append(events, Event("getState", "eval", k_idx, n_idx, l_idx))

\* a checkpoint written to one file name for every block
SaveState_unindexed ==
    /\ pc = "save_state"
    /\ LET xml == FileName("production", -1, "xml")
       IN  files' = [f \in DOMAIN files \cup {xml} |->
                        IF f = xml
                        THEN [microstate |-> microstate, parameters |-> parameters]
                        ELSE files[f]]
    /\ pc' = "pop_reporters"
    /\ UNCHANGED <<buildvars, analysisvars, createvars, error, k_idx, n_idx, l_idx, parameters, microstate, currentStep,
                   reporters, u_kln, nodes, writes,
                   altOrder, altParameters, altMicrostate, altU>>
    /\ events' = Append(events, Event("saveState", "block", k_idx, -1, -1))

\* a checkpoint taken with the control parameter put back to the block's lambda
SaveState_at_block_lambda ==
    /\ pc = "save_state"
    /\ LET xml == FileName("production", k_idx, "xml")
       IN  files' = [f \in DOMAIN files \cup {xml} |->
                        IF f = xml
                        THEN [microstate |-> microstate,
                              parameters |-> setParameter(parameters,
                                                 ControlParameter(notebook),
                                                 Lam(lambda_values[k_idx]))]
                        ELSE files[f]]
    /\ pc' = "pop_reporters"
    /\ UNCHANGED <<buildvars, analysisvars, createvars, error, k_idx, n_idx, l_idx, parameters, microstate, currentStep,
                   reporters, u_kln, nodes, writes,
                   altOrder, altParameters, altMicrostate, altU>>
    /\ events' = Append(events, Event("saveState", "block", k_idx, -1, -1))

\* "simulation.saveState(f'{work_folder}/production-{k}.xml')"
SaveState ==
    /\ pc = "save_state"
    /\ LET xml == FileName("production", k_idx, "xml")
       IN  files' = [f \in DOMAIN files \cup {xml} |->
                        IF f = xml
                        THEN [microstate |-> microstate, parameters |-> parameters]
                        ELSE files[f]]
    /\ pc' = "pop_reporters"
    /\ UNCHANGED <<buildvars, analysisvars, createvars, error, k_idx, n_idx, l_idx, parameters, microstate, currentStep,
                   reporters, u_kln, nodes, writes,
                   altOrder, altParameters, altMicrostate, altU>>
    /\ events' = Append(events, Event("saveState", "block", k_idx, -1, -1))

\* "simulation.reporters.pop(-1); simulation.reporters.pop(-1)" and the end of the
\* loop over k
PopReporters ==
    /\ pc = "pop_reporters"
    /\ reporters' = SubSeq(reporters, 1, Len(reporters) - 2)
    /\ k_idx' = k_idx + 1
    /\ pc' = IF k_idx + 1 < n_lambda THEN "set_lambda" ELSE "save_array"
    /\ UNCHANGED <<buildvars, analysisvars, createvars, error, n_idx, l_idx, parameters, microstate, currentStep,
                   files, u_kln, nodes, writes,
                   altOrder, altParameters, altMicrostate, altU>>
    /\ events' = Append(events, Event("reporters.pop", "block", k_idx, -1, -1))

\* "np.save(f'{work_folder}/reduced_..._potential.npy', u_kln)"
SaveArray ==
    /\ pc = "save_array"
    /\ files' = [f \in DOMAIN files \cup {PotentialFile(notebook)} |->
                    IF f = PotentialFile(notebook) THEN u_kln ELSE files[f]]
    /\ pc' = "done"
    /\ UNCHANGED <<buildvars, analysisvars, createvars, error, k_idx, n_idx, l_idx, parameters, microstate, currentStep,
                   reporters, u_kln, nodes, writes,
                   altOrder, altParameters, altMicrostate, altU>>
    /\ events' = Append(events, Event("np.save", "block", -1, -1, -1))

----------------------------------------------------------------------------
(* Analysis: the decorrelation cell and the MBAR cell.                     *)
(* The statistics of a recorded series (its equilibration cutoff and its   *)
(* statistical inefficiency g >= 1) depend on the energies; the model      *)
(* takes them from a family of assignments, g in halves.                   *)

\* the largest statistical inefficiency of the model, in halves
MaxGHalves == 6

\* the assignments of (nequil, g) to the states; timeseries.detectEquilibration
\* scans the cutoffs t = 0 .. T-2
StatFamily ==
    LET cutoffs == IF total_iterations > 1 THEN total_iterations - 1 ELSE 1
    IN  { [kk \in 0..(n_lambda - 1) |->
              [nequil |-> (kk + b) % cutoffs,
               g |-> 2 + ((kk + a) % (MaxGHalves - 1))]] :
          a \in 0..(MaxGHalves - 2), b \in 0..(cutoffs - 1) }

\* [nequil, g, Neff_max] = timeseries.detectEquilibration(A_t)
detectEquilibration(A_t, stat) == [nequil |-> stat.nequil, g |-> stat.g]

\* int(round(num / den)) for num >= 0: Python rounds halves to the even integer
RoundHalfEven(num, den) ==
    LET q == num \div den
        r == num % den
    IN  IF 2 * r < den THEN q
        ELSE IF 2 * r > den THEN q + 1
        ELSE IF q % 2 = 0 THEN q ELSE q + 1

\* subsampleCorrelatedData that also accepts the index T
RECURSIVE SubsampleFrom_inclusive(_, _, _, _)
SubsampleFrom_inclusive(T, h, nn, acc) ==
    LET t == RoundHalfEven(nn * h, 2)
    IN  IF t <= T
        THEN SubsampleFrom_inclusive(T, h, nn + 1,
                 IF nn = 0 \/ t # acc[nn - 1] THEN ZAppend(acc, t) ELSE acc)
        ELSE acc

\* timeseries.subsampleCorrelatedData(A_t, g=g), from its n-th candidate on:
\* "while int(round(n * g)) < T: t = int(round(n * g));
\*      if (n == 0) or (t != indices[n - 1]): indices.append(t); n += 1"
RECURSIVE SubsampleFrom(_, _, _, _)
SubsampleFrom(T, h, nn, acc) ==
    LET t == RoundHalfEven(nn * h, 2)
    IN  IF t < T
        THEN SubsampleFrom(T, h, nn + 1,
                 IF nn = 0 \/ t # acc[nn - 1] THEN ZAppend(acc, t) ELSE acc)
        ELSE acc

subsampleCorrelatedData(A_t, h) == SubsampleFrom(ZLen(A_t), h, 0, ZEmpty)

\* u_kln[k, :, indices].T: the copy numpy makes of the selected samples, of shape
\* (len(indices), n_lambda), and its transpose
Selected(u, kk, idx) ==
    LET gathered == [j \in DOMAIN idx |-> [ll \in DOMAIN u[kk] |-> u[kk][ll][idx[j]]]]
    IN  [ll \in DOMAIN u[kk] |-> [j \in DOMAIN gathered |-> gathered[j][ll]]]

\* "N_k = np.zeros([n_lambda], np.int32)" and the head of "for k in range(n_lambda)"
BeginAnalysis ==
    /\ pc = "done"
    /\ N_k' = [kk \in 0..(n_lambda - 1) |-> 0]
    /\ statistics' \in StatFamily
    /\ k_idx' = 0
    /\ pc' = IF n_lambda > 0 THEN "detect" ELSE "mbar"
    /\ UNCHANGED <<buildvars, createvars, error, enginevars, u_kln,
                   nequil, g_ineff, indices, mbar, retained>>

\* "[nequil, g, Neff_max] = timeseries.detectEquilibration(u_kln[k, k, :])
\*  indices = timeseries.subsampleCorrelatedData(u_kln[k, k, :], g=g)"
DetectAndSubsample ==
    /\ pc = "detect"
    /\ LET A_t == u_kln[k_idx][k_idx]
           found == detectEquilibration(A_t, statistics[k_idx])
       IN  /\ nequil' = found.nequil
           /\ g_ineff' = found.g
           /\ indices' = subsampleCorrelatedData(A_t, found.g)
    /\ pc' = "compact"
    /\ UNCHANGED <<buildvars, createvars, error, enginevars, k_idx, u_kln,
                   N_k, statistics, mbar, retained>>

\* a compaction of the diagonal series only
Compact_diagonal_only ==
    /\ pc = "compact"
    /\ N_k' = [N_k EXCEPT ![k_idx] = ZLen(indices)]
    /\ u_kln' = [u_kln EXCEPT ![k_idx][k_idx] =
                    [nn \in DOMAIN @ |->
                        IF nn < ZLen(indices) THEN u_kln[k_idx][k_idx][indices[nn]]
                        ELSE @[nn]]]
    /\ retained' = [kk \in DOMAIN retained \cup {k_idx} |->
                       IF kk = k_idx THEN indices ELSE retained[kk]]
    /\ k_idx' = k_idx + 1
    /\ pc' = IF k_idx + 1 < n_lambda THEN "detect" ELSE "mbar"
    /\ UNCHANGED <<buildvars, createvars, error, enginevars,
                   nequil, g_ineff, indices, statistics, mbar>>

\* a compaction that clears the slots it does not fill
Compact_truncating ==
    /\ pc = "compact"
    /\ N_k' = [N_k EXCEPT ![k_idx] = ZLen(indices)]
    /\ LET selected == Selected(u_kln, k_idx, indices)
       IN  u_kln' = [u_kln EXCEPT ![k_idx] =
                        [ll \in DOMAIN @ |-> [nn \in DOMAIN @[ll] |->
                            IF nn < ZLen(indices) THEN selected[ll][nn] ELSE np_zero]]]
    /\ retained' = [kk \in DOMAIN retained \cup {k_idx} |->
                       IF kk = k_idx THEN indices ELSE retained[kk]]
    /\ k_idx' = k_idx + 1
    /\ pc' = IF k_idx + 1 < n_lambda THEN "detect" ELSE "mbar"
    /\ UNCHANGED <<buildvars, createvars, error, enginevars,
                   nequil, g_ineff, indices, statistics, mbar>>

\* a decorrelation that saves the array again after each row
Compact_saving ==
    /\ pc = "compact"
    /\ N_k' = [N_k EXCEPT ![k_idx] = ZLen(indices)]
    /\ LET selected == Selected(u_kln, k_idx, indices)
       IN  u_kln' = [u_kln EXCEPT ![k_idx] =
                        [ll \in DOMAIN @ |-> [nn \in DOMAIN @[ll] |->
                            IF nn < ZLen(indices) THEN selected[ll][nn] ELSE @[ll][nn]]]]
    /\ files' = [files EXCEPT ![PotentialFile(notebook)] = u_kln']
    /\ retained' = [kk \in DOMAIN retained \cup {k_idx} |->
                       IF kk = k_idx THEN indices ELSE retained[kk]]
    /\ k_idx' = k_idx + 1
    /\ pc' = IF k_idx + 1 < n_lambda THEN "detect" ELSE "mbar"
    /\ UNCHANGED <<buildvars, createvars, error, n_idx, l_idx, parameters, microstate,
                   currentStep, reporters, nodes, events, writes,
                   altOrder, altParameters, altMicrostate, altU,
                   nequil, g_ineff, indices, statistics, mbar>>

\* "N_k[k] = len(indices)
\*  u_kln[k, :, 0 : N_k[k]] = u_kln[k, :, indices].T" and the end of the loop over k
Compact ==
    /\ pc = "compact"
    /\ N_k' = [N_k EXCEPT ![k_idx] = ZLen(indices)]
    /\ LET selected == Selected(u_kln, k_idx, indices)
       IN  u_kln' = [u_kln EXCEPT ![k_idx] =
                        [ll \in DOMAIN @ |-> [nn \in DOMAIN @[ll] |->
                            IF nn < ZLen(indices) THEN selected[ll][nn] ELSE @[ll][nn]]]]
    /\ retained' = [kk \in DOMAIN retained \cup {k_idx} |->
                       IF kk = k_idx THEN indices ELSE retained[kk]]
    /\ k_idx' = k_idx + 1
    /\ pc' = IF k_idx + 1 < n_lambda THEN "detect" ELSE "mbar"
    /\ UNCHANGED <<buildvars, createvars, error, enginevars,
                   nequil, g_ineff, indices, statistics, mbar>>

\* "mbar = MBAR(u_kln, N_k)"
ConstructMBAR ==
    /\ pc = "mbar"
    /\ mbar' = [u_kln |-> u_kln, N_k |-> N_k]
    /\ pc' = "analysed"
    /\ UNCHANGED <<buildvars, createvars, error, enginevars, k_idx, u_kln,
                   N_k, nequil, g_ineff, indices, statistics, retained>>

\* an engine call whose exception is caught, the loop going on to the checkpoint
EngineFailure_caught ==
    /\ pc \in {"equil", "prod_step", "eval_energy"}
    /\ error' = "OpenMMException"
    /\ pc' = "save_state"
    /\ UNCHANGED <<buildvars, analysisvars, createvars, enginevars, k_idx, u_kln>>

\* "simulation.step(...)" or "simulation.context.getState(getEnergy=True)" raises:
\* the loop has no try/except, the exception ends the cell and the run of the
\* notebook
EngineFailure ==
    /\ pc \in {"equil", "prod_step", "eval_energy"}
    /\ error' = "OpenMMException"
    /\ pc' = "failed"
    /\ UNCHANGED <<buildvars, analysisvars, createvars, enginevars, k_idx, u_kln>>

\* the array the production loop recorded, as np.save wrote it
Recorded == files[PotentialFile(notebook)]
\* the analysis cells are running or have run
Analysing == pc \in {"detect", "compact", "mbar", "analysed"}

NextRun ==
    \/ MinimizeEnergy
    \/ AddEquilibrationReporters
    \/ InitialEquilibration
    \/ SaveEquilibrationState
    \/ RunConstants
    \/ NewSimulation
    \/ SetLambda
    \/ ShortEquilibration
    \/ AddReporters
    \/ ProdSetLambda
    \/ ProdStep
    \/ EvalSetLambda
    \/ EvalEnergy
    \/ SaveState
    \/ PopReporters
    \/ SaveArray
    \/ BeginAnalysis
    \/ DetectAndSubsample
    \/ Compact
    \/ ConstructMBAR
    \/ EngineFailure

SpecRun == InitRun /\ [][NextRun]_vars

\* the notebook is run cell by cell by one kernel: a cell whose call returned
\* is followed by the next statement, so a step that stays possible is taken
FairSpecRun == SpecRun /\ WF_vars(NextRun)

----------------------------------------------------------------------------
(* The system-creation notebook, example-ray/01-create_openmm_system.      *)
(* A str is a tuple of one-character strings.                              *)

\* the letters of the names, lower case and upper case
Letters == << <<"a", "A">>, <<"e", "E">>, <<"f", "F">>, <<"g", "G">>,
              <<"l", "L">>, <<"o", "O">>, <<"p", "P">>, <<"s", "S">> >>

\* str.upper() and str.lower(): letter by letter, other characters kept
upper(str) ==
    [i \in DOMAIN str |->
        IF \E c \in DOMAIN Letters : Letters[c][1] = str[i]
        THEN Letters[CHOOSE c \in DOMAIN Letters : Letters[c][1] = str[i]][2]
        ELSE str[i]]
lower(str) ==
    [i \in DOMAIN str |->
        IF \E c \in DOMAIN Letters : Letters[c][2] = str[i]
        THEN Letters[CHOOSE c \in DOMAIN Letters : Letters[c][2] = str[i]][1]
        ELSE str[i]]

\* the values of forcefield_name: "gaff", "sage" and "opls" in every mix of
\* cases, "gaff2", and the empty string
ForceFieldNames ==
    { [i \in DOMAIN word |-> IF caps[i] THEN upper(word)[i] ELSE word[i]] :
        word \in { <<"g", "a", "f", "f">>, <<"s", "a", "g", "e">>,
                   <<"o", "p", "l", "s">> },
        caps \in [1..4 -> BOOLEAN] }
    \cup { <<"g", "a", "f", "f", "2">>, << >> }

\* the cells "System information" and "Create Molecule" have run in a fresh kernel
InitCreate ==
    /\ notebook = "create_system"
    /\ forcefield_name \in ForceFieldNames
    /\ template = "unbound"
    /\ forcefield = << >> /\ modeller = << >> /\ omm_systems = << >> /\ namespace = {}
    /\ printed = << >>
    /\ files = << >>
    /\ pc = "select"
    /\ error = "none"
    /\ system = << >> /\ original = << >> /\ molecule = {} /\ solvent = {}
    /\ calls = << >>
    /\ k_idx = 0 /\ n_idx = 0 /\ l_idx = 0
    /\ parameters = << >> /\ microstate = 0 /\ currentStep = 0
    /\ reporters = << >> /\ u_kln = << >>
    /\ nodes = << >> /\ events = << >> /\ writes = << >>
    /\ altOrder = << >> /\ altParameters = << >> /\ altMicrostate = 0 /\ altU = << >>
    /\ NoAnalysis

\* "forcefield = openmm.app.ForceField('tip3p.xml')
\*  if forcefield_name.upper() == 'GAFF': template = GAFFTemplateGenerator(...)
\*  elif forcefield_name.upper() == 'SAGE': template = SMIRNOFFTemplateGenerator(...)
\*  else: print('Unknow force field, cannot preceed.')
\*  print('Using force field:', forcefield_name)"
SelectTemplate ==
    /\ pc = "select" /\ error = "none"
    /\ forcefield' = [files |-> <<"tip3p.xml">>, generators |-> << >>]
    /\ IF upper(forcefield_name) = <<"G", "A", "F", "F">>
       THEN /\ template' = "GAFFTemplateGenerator"
            /\ printed' = Append(printed, "Using force field:")
       ELSE IF upper(forcefield_name) = <<"S", "A", "G", "E">>
       THEN /\ template' = "SMIRNOFFTemplateGenerator"
            /\ printed' = Append(printed, "Using force field:")
       ELSE /\ template' = template
            /\ printed' = printed \o <<"Unknow force field, cannot preceed.",
                                       "Using force field:">>
    /\ pc' = "register"
    /\ UNCHANGED <<buildvars, analysisvars, enginevars, k_idx, u_kln,
                   forcefield_name, modeller, omm_systems, error, namespace>>

\* a registration that takes whatever template is, bound or not
RegisterTemplateGenerator_unchecked ==
    /\ pc = "register" /\ error = "none"
    /\ forcefield' = [forcefield EXCEPT !.generators = Append(@, template)]
    /\ pc' = "build"
    /\ UNCHANGED <<buildvars, analysisvars, enginevars, k_idx, u_kln,
                   forcefield_name, template, modeller, omm_systems, printed, error, namespace>>

\* "forcefield.registerTemplateGenerator(template.generator)": the name template
\* is unbound when neither branch assigned it, and evaluating it raises NameError
RegisterTemplateGenerator ==
    /\ pc = "register" /\ error = "none"
    /\ IF template = "unbound"
       THEN /\ error' = "NameError"
            /\ UNCHANGED <<forcefield, pc>>
       ELSE /\ forcefield' = [forcefield EXCEPT !.generators = Append(@, template)]
            /\ pc' = "build"
            /\ error' = error
    /\ UNCHANGED <<buildvars, analysisvars, enginevars, k_idx, u_kln,
                   forcefield_name, template, modeller, omm_systems, printed, namespace>>

\* "modeller = openmm.app.Modeller(...); modeller.addSolvent(forcefield, model='tip3p', ...)
\*  omm_vac_system = forcefield.createSystem(omm_vac_topology, nonbondedMethod=NoCutoff, ...)
\*  omm_sol_system = forcefield.createSystem(omm_sol_topology, nonbondedMethod=PME, ...)
\*  omm_sol_system.addForce(openmm.MonteCarloBarostat(...))": createSystem raises
\* ValueError for a residue that no template and no generator matches
BuildSystems ==
    /\ pc = "build" /\ error = "none"
    /\ modeller' = [solute |-> "CCO", solvent |-> "tip3p"]
    /\ IF \E i \in DOMAIN forcefield.generators :
              forcefield.generators[i] \in {"GAFFTemplateGenerator",
                                            "SMIRNOFFTemplateGenerator"}
       THEN /\ omm_systems' =
                  [w \in {"vac", "sol"} |->
                      [parameters |-> forcefield.generators[1],
                       nonbondedMethod |-> IF w = "vac" THEN "NoCutoff" ELSE "PME",
                       constraints |-> "HBonds",
                       barostat |-> w = "sol"]]
            /\ pc' = "save_xml"
            /\ error' = error
       ELSE /\ error' = "ValueError"
            /\ UNCHANGED <<omm_systems, pc>>
    /\ UNCHANGED <<buildvars, analysisvars, enginevars, k_idx, u_kln,
                   forcefield_name, template, forcefield, printed, namespace>>

\* "with open(saved_vacumm_system_file_name, 'w') as f1: f1.write(serialize(omm_vac_system))
\*  with open(saved_solvated_system_file_name, 'w') as f2: f2.write(serialize(omm_sol_system))"
\* with the names f"{system_name}_vac_system_{forcefield_name.lower()}.xml"
SaveSystems ==
    /\ pc = "save_xml" /\ error = "none"
    /\ LET vac == FileName(<<"molecule_vac_system", lower(forcefield_name)>>, -1, "xml")
           sol == FileName(<<"molecule_sol_system", lower(forcefield_name)>>, -1, "xml")
       IN  files' = [f \in DOMAIN files \cup {vac, sol} |->
                        IF f = vac THEN omm_systems["vac"]
                        ELSE IF f = sol THEN omm_systems["sol"]
                        ELSE files[f]]
    /\ pc' = "save_pdb"
    /\ UNCHANGED <<buildvars, analysisvars, createvars, error, k_idx, u_kln,
                   n_idx, l_idx, parameters, microstate, currentStep, reporters,
                   nodes, events, writes, altOrder, altParameters, altMicrostate, altU>>

\* "PDBFile.writeFile(omm_sol_topology, omm_sol_positions, f1)
\*  PDBFile.writeFile(omm_vac_topology, omm_vac_position, f2)"
SavePDBs ==
    /\ pc = "save_pdb" /\ error = "none"
    /\ LET vac == FileName(<<"molecule.vac", << >> >>, -1, "pdb")
           sol == FileName(<<"molecule.sol", << >> >>, -1, "pdb")
       IN  files' = [f \in DOMAIN files \cup {vac, sol} |->
                        IF f = vac THEN [solute |-> modeller.solute]
                        ELSE IF f = sol THEN modeller
                        ELSE files[f]]
    /\ pc' = "created"
    /\ UNCHANGED <<buildvars, analysisvars, createvars, error, k_idx, u_kln,
                   n_idx, l_idx, parameters, microstate, currentStep, reporters,
                   nodes, events, writes, altOrder, altParameters, altMicrostate, altU>>

SpecCreate ==
    InitCreate /\ [][\/ SelectTemplate
                     \/ RegisterTemplateGenerator
                     \/ BuildSystems
                     \/ SaveSystems
                     \/ SavePDBs]_vars

----------------------------------------------------------------------------
(* The free energies the notebooks printed and the README reports, in      *)
(* hundredths of a kcal/mol.                                               *)

\* the output of the last cell of each notebook, "{lb} = {DeltaF_ij[0,k]...:.2f} ..."
PrintedFreeEnergies(nbk) ==
    CASE nbk = "vdw_bulk" ->
            ZFromSeq(<<0, 24, 100, 192, 251, 276, 279, 265, 241, 211, 178>>)
      [] nbk = "elec_vac" ->
            ZFromSeq(<<0, -69, -129, -180, -220, -249, -268, -276, -273, -259, -235>>)
      [] nbk = "elec_bulk" ->
            ZFromSeq(<<0, -74, -146, -215, -281, -347, -413, -484, -563, -652, -752>>)

\* "The final HFE are: ..." of the README
ReadmeFreeEnergies ==
    [elec_vac |-> -235, elec_bulk |-> -752, vdw_bulk |-> 178, solv |-> -339]

\* a decomposition that adds the vacuum leg
DeltaG_solv_added(elec_bulk, elec_vacuum, vdw) == (elec_bulk + elec_vacuum) + vdw

\* the README's "DeltaG_solv = DeltaG_elec + DeltaG_vdw" with
\* "DeltaG_elec = DeltaG_elec^bulk - DeltaG_elec^vacuum"
DeltaG_solv(elec_bulk, elec_vacuum, vdw) == (elec_bulk - elec_vacuum) + vdw

\* one printed line of each notebook is taken as its leg
InitReadme ==
    /\ notebook = "readme"
    /\ indices \in [Notebooks -> DOMAIN lambda_values]
    /\ printed = << >>
    /\ pc = "combine"
    /\ error = "none"
    /\ system = << >> /\ original = << >> /\ molecule = {} /\ solvent = {}
    /\ calls = << >>
    /\ k_idx = 0 /\ n_idx = 0 /\ l_idx = 0
    /\ parameters = << >> /\ microstate = 0 /\ currentStep = 0
    /\ reporters = << >> /\ files = << >> /\ u_kln = << >>
    /\ nodes = << >> /\ events = << >> /\ writes = << >>
    /\ altOrder = << >> /\ altParameters = << >> /\ altMicrostate = 0 /\ altU = << >>
    /\ N_k = << >> /\ nequil = 0 /\ g_ineff = 0
    /\ statistics = << >> /\ mbar = << >> /\ retained = << >>
    /\ forcefield_name = << >> /\ template = "unbound" /\ forcefield = << >>
    /\ modeller = << >> /\ omm_systems = << >> /\ namespace = {}

\* the legs are combined as the README combines them
CombineLegs ==
    /\ pc = "combine"
    /\ printed' = << DeltaG_solv(PrintedFreeEnergies("elec_bulk")[indices["elec_bulk"]],
                                 PrintedFreeEnergies("elec_vac")[indices["elec_vac"]],
                                 PrintedFreeEnergies("vdw_bulk")[indices["vdw_bulk"]]) >>
    /\ pc' = "combined"
    /\ UNCHANGED <<buildvars, enginevars, k_idx, u_kln, error,
                   N_k, nequil, g_ineff, indices, statistics, mbar, retained,
                   forcefield_name, template, forcefield, modeller, omm_systems, namespace>>

SpecReadme == InitReadme /\ [][CombineLegs]_vars

----------------------------------------------------------------------------
(* The kernel: the code cells of a notebook, run top to bottom ("Run All") *)
(* in a kernel that was just started.                                      *)

\* the statements of the code cells, in notebook order: the cell and the line
\* of the statement, the names it reads before it binds them (those read by
\* the functions it calls included) and the names it binds. "line" is the line
\* in 02-decouple-LJ-bulk.ipynb (vdw_bulk and elec_vac, which follows it in the
\* same file) or in 03-annihilate-Elec-bulk.ipynb (elec_bulk).
Statements(nbk) ==
    CASE nbk = "vdw_bulk" ->
      <<
         [cell |-> 0, line |-> 10, uses |-> {}, binds |-> {"os"}],
         [cell |-> 0, line |-> 11, uses |-> {}, binds |-> {"np"}],
         [cell |-> 0, line |-> 12, uses |-> {}, binds |-> {"plt"}],
         [cell |-> 0, line |-> 14, uses |-> {}, binds |-> {"MBAR", "timeseries"}],
         [cell |-> 0, line |-> 16, uses |-> {}, binds |-> {"simtk_unit"}],
         [cell |-> 0, line |-> 17,
          uses |-> {},
          binds |-> {"AmberInpcrdFile", "AmberPrmtopFile", "DCDReporter", "HBonds", "PDBFile",
                    "PME", "Simulation", "StateDataReporter"}],
         [cell |-> 0, line |-> 27,
          uses |-> {},
          binds |-> {"CustomBondForce", "CustomNonbondedForce", "LangevinIntegrator",
                    "MonteCarloBarostat", "NonbondedForce", "Platform", "XmlSerializer"}],
         [cell |-> 1, line |-> 53, uses |-> {}, binds |-> {"add_LJ_scaling"}],
         [cell |-> 2, line |-> 138, uses |-> {}, binds |-> {"turn_off_nonbonded"}],
         [cell |-> 3, line |-> 184, uses |-> {}, binds |-> {"build_folder"}],
         [cell |-> 3, line |-> 185, uses |-> {}, binds |-> {"work_folder"}],
         [cell |-> 3, line |-> 186, uses |-> {"os", "work_folder"}, binds |-> {}],
         [cell |-> 4, line |-> 196, uses |-> {"Platform"}, binds |-> {"platform"}],
         [cell |-> 4, line |-> 197, uses |-> {"platform"}, binds |-> {}],
         [cell |-> 4, line |-> 198, uses |-> {"platform"}, binds |-> {}],
         [cell |-> 5, line |-> 208, uses |-> {"AmberPrmtopFile", "build_folder"}, binds |-> {"prmtop"}],
         [cell |-> 5, line |-> 209, uses |-> {"AmberInpcrdFile", "build_folder"}, binds |-> {"inpcrd"}],
         [cell |-> 6, line |-> 219, uses |-> {"prmtop"}, binds |-> {"ethanol"}],
         [cell |-> 6, line |-> 220, uses |-> {"prmtop"}, binds |-> {"solvent"}],
         [cell |-> 7, line |-> 230, uses |-> {"HBonds", "PME", "prmtop", "simtk_unit"},
          binds |-> {"system"}],
         [cell |-> 8, line |-> 245, uses |-> {"simtk_unit"}, binds |-> {"temperature"}],
         [cell |-> 8, line |-> 246, uses |-> {"simtk_unit"}, binds |-> {"pressure"}],
         [cell |-> 8, line |-> 247, uses |-> {"simtk_unit"}, binds |-> {"friction"}],
         [cell |-> 8, line |-> 248, uses |-> {"simtk_unit"}, binds |-> {"timestep"}],
         [cell |-> 8, line |-> 249, uses |-> {"simtk_unit", "temperature"}, binds |-> {"kT"}],
         [cell |-> 9, line |-> 270, uses |-> {"MonteCarloBarostat", "pressure", "temperature"},
          binds |-> {"barostat"}],
         [cell |-> 9, line |-> 271, uses |-> {"barostat", "system"}, binds |-> {}],
         [cell |-> 10, line |-> 281,
          uses |-> {"CustomBondForce", "CustomNonbondedForce", "NonbondedForce",
                   "add_LJ_scaling", "ethanol", "solvent", "system"},
          binds |-> {}],
         [cell |-> 10, line |-> 282, uses |-> {"NonbondedForce", "ethanol", "system", "turn_off_nonbonded"},
          binds |-> {}],
         [cell |-> 11, line |-> 292, uses |-> {"XmlSerializer", "open", "system", "work_folder"},
          binds |-> {"f"}],
         [cell |-> 12, line |-> 311, uses |-> {"LangevinIntegrator", "friction", "temperature", "timestep"},
          binds |-> {"integrator"}],
         [cell |-> 12, line |-> 313, uses |-> {"Simulation", "integrator", "platform", "prmtop", "system"},
          binds |-> {"simulation"}],
         [cell |-> 12, line |-> 319, uses |-> {"inpcrd", "simulation"}, binds |-> {}],
         [cell |-> 13, line |-> 337, uses |-> {"simtk_unit", "simulation"}, binds |-> {}],
         [cell |-> 14, line |-> 357, uses |-> {}, binds |-> {"output_freq"}],
         [cell |-> 14, line |-> 358, uses |-> {}, binds |-> {"equil_steps"}],
         [cell |-> 15, line |-> 368, uses |-> {"DCDReporter", "output_freq", "work_folder"},
          binds |-> {"dcd_reporter"}],
         [cell |-> 15, line |-> 369, uses |-> {"StateDataReporter", "output_freq", "work_folder"},
          binds |-> {"state_reporter"}],
         [cell |-> 15, line |-> 381, uses |-> {"dcd_reporter", "simulation"}, binds |-> {}],
         [cell |-> 15, line |-> 382, uses |-> {"simulation", "state_reporter"}, binds |-> {}],
         [cell |-> 16, line |-> 392, uses |-> {"equil_steps", "simulation"}, binds |-> {}],
         [cell |-> 17, line |-> 402, uses |-> {"simulation", "work_folder"}, binds |-> {}],
         [cell |-> 17, line |-> 403, uses |-> {"PDBFile", "open", "prmtop", "simulation", "work_folder"},
          binds |-> {"f"}],
         [cell |-> 18, line |-> 426, uses |-> {}, binds |-> {"lambda_values"}],
         [cell |-> 18, line |-> 427, uses |-> {"lambda_values", "len"}, binds |-> {"n_lambda"}],
         [cell |-> 18, line |-> 429, uses |-> {}, binds |-> {"output_freq"}],
         [cell |-> 18, line |-> 430, uses |-> {}, binds |-> {"equil_steps"}],
         [cell |-> 18, line |-> 431, uses |-> {}, binds |-> {"prod_steps"}],
         [cell |-> 18, line |-> 433, uses |-> {"int", "output_freq", "prod_steps"},
          binds |-> {"total_iterations"}],
         [cell |-> 18, line |-> 435, uses |-> {"n_lambda", "np", "total_iterations"}, binds |-> {"u_kln"}],
         [cell |-> 19, line |-> 445, uses |-> {"LangevinIntegrator", "friction", "temperature", "timestep"},
          binds |-> {"integrator"}],
         [cell |-> 19, line |-> 447, uses |-> {"Simulation", "integrator", "platform", "prmtop", "system"},
          binds |-> {"simulation"}],
         [cell |-> 19, line |-> 453, uses |-> {"simulation", "work_folder"}, binds |-> {}],
         [cell |-> 20, line |-> 481,
          uses |-> {"DCDReporter", "StateDataReporter", "enumerate", "equil_steps", "kT",
                   "lambda_values", "output_freq", "print", "range", "simulation",
                   "total_iterations", "u_kln", "work_folder"},
          binds |-> {"dcd_reporter", "k", "l", "lb1", "lb2", "n", "state_reporter"}],
         [cell |-> 21, line |-> 530, uses |-> {"np", "u_kln", "work_folder"}, binds |-> {}],
         [cell |-> 22, line |-> 549, uses |-> {"n_lambda", "np"}, binds |-> {"N_k"}],
         [cell |-> 22, line |-> 551, uses |-> {"N_k", "len", "n_lambda", "range", "timeseries", "u_kln"},
          binds |-> {"Neff_max", "g", "indices", "k", "nequil"}],
         [cell |-> 23, line |-> 565, uses |-> {"MBAR", "N_k", "u_kln"}, binds |-> {"mbar"}],
         [cell |-> 23, line |-> 566, uses |-> {"mbar"}, binds |-> {"DeltaF_ij", "Theta_ij", "dDeltaF_ij"}],
         [cell |-> 23, line |-> 567, uses |-> {"mbar"}, binds |-> {"ODeltaF_ij"}],
         [cell |-> 24, line |-> 595, uses |-> {"kT", "simtk_unit"}, binds |-> {"convert_kcalmol"}],
         [cell |-> 24, line |-> 596,
          uses |-> {"DeltaF_ij", "convert_kcalmol", "dDeltaF_ij", "enumerate", "lambda_values",
                   "print"},
          binds |-> {"k", "lb"}],
         [cell |-> 25, line |-> 632, uses |-> {"plt"}, binds |-> {}],
         [cell |-> 25, line |-> 633, uses |-> {"ODeltaF_ij", "plt"}, binds |-> {}],
         [cell |-> 25, line |-> 634, uses |-> {"plt"}, binds |-> {}],
         [cell |-> 25, line |-> 635, uses |-> {"plt"}, binds |-> {}],
         [cell |-> 25, line |-> 636, uses |-> {"plt"}, binds |-> {}],
         [cell |-> 25, line |-> 638, uses |-> {"plt"}, binds |-> {"cbar"}],
         [cell |-> 25, line |-> 639, uses |-> {"cbar"}, binds |-> {}]
      >>
      [] nbk = "elec_bulk" ->
      <<
         [cell |-> 0, line |-> 10, uses |-> {}, binds |-> {"os"}],
         [cell |-> 0, line |-> 11, uses |-> {}, binds |-> {"np"}],
         [cell |-> 0, line |-> 12, uses |-> {}, binds |-> {"plt"}],
         [cell |-> 0, line |-> 14, uses |-> {}, binds |-> {"MBAR", "timeseries"}],
         [cell |-> 0, line |-> 16, uses |-> {}, binds |-> {"simtk_unit"}],
         [cell |-> 0, line |-> 17,
          uses |-> {},
          binds |-> {"AmberInpcrdFile", "AmberPrmtopFile", "DCDReporter", "HBonds", "PDBFile",
                    "PME", "Simulation", "StateDataReporter"}],
         [cell |-> 0, line |-> 27,
          uses |-> {},
          binds |-> {"CustomBondForce", "CustomNonbondedForce", "LangevinIntegrator",
                    "MonteCarloBarostat", "NonbondedForce", "Platform", "XmlSerializer"}],
         [cell |-> 1, line |-> 53, uses |-> {}, binds |-> {"add_lambda_elec"}],
         [cell |-> 2, line |-> 96, uses |-> {}, binds |-> {"create_custom_LJ"}],
         [cell |-> 3, line |-> 169, uses |-> {}, binds |-> {"turn_off_nonbonded"}],
         [cell |-> 4, line |-> 209, uses |-> {}, binds |-> {"builf_folder"}],
         [cell |-> 4, line |-> 210, uses |-> {}, binds |-> {"work_folder"}],
         [cell |-> 4, line |-> 211, uses |-> {"os", "work_folder"}, binds |-> {}],
         [cell |-> 5, line |-> 221, uses |-> {"Platform"}, binds |-> {"platform"}],
         [cell |-> 5, line |-> 222, uses |-> {"platform"}, binds |-> {}],
         [cell |-> 5, line |-> 223, uses |-> {"platform"}, binds |-> {}],
         [cell |-> 6, line |-> 233, uses |-> {"AmberPrmtopFile", "build_folder"}, binds |-> {"prmtop"}],
         [cell |-> 6, line |-> 234, uses |-> {"AmberInpcrdFile", "build_folder"}, binds |-> {"inpcrd"}],
         [cell |-> 7, line |-> 244, uses |-> {"prmtop"}, binds |-> {"ethanol"}],
         [cell |-> 7, line |-> 245, uses |-> {"prmtop"}, binds |-> {"solvent"}],
         [cell |-> 8, line |-> 255, uses |-> {"HBonds", "PME", "prmtop", "simtk_unit"},
          binds |-> {"system"}],
         [cell |-> 9, line |-> 270, uses |-> {"simtk_unit"}, binds |-> {"temperature"}],
         [cell |-> 9, line |-> 271, uses |-> {"simtk_unit"}, binds |-> {"pressure"}],
         [cell |-> 9, line |-> 272, uses |-> {"simtk_unit"}, binds |-> {"friction"}],
         [cell |-> 9, line |-> 273, uses |-> {"simtk_unit"}, binds |-> {"timestep"}],
         [cell |-> 9, line |-> 274, uses |-> {"simtk_unit", "temperature"}, binds |-> {"kT"}],
         [cell |-> 10, line |-> 295, uses |-> {"MonteCarloBarostat", "pressure", "temperature"},
          binds |-> {"barostat"}],
         [cell |-> 10, line |-> 296, uses |-> {"barostat", "system"}, binds |-> {}],
         [cell |-> 11, line |-> 306, uses |-> {"NonbondedForce", "add_lambda_elec", "ethanol", "system"},
          binds |-> {}],
         [cell |-> 11, line |-> 307,
          uses |-> {"CustomBondForce", "CustomNonbondedForce", "NonbondedForce",
                   "create_custom_LJ", "ethanol", "solvent", "system"},
          binds |-> {}],
         [cell |-> 11, line |-> 308, uses |-> {"NonbondedForce", "ethanol", "system", "turn_off_nonbonded"},
          binds |-> {}],
         [cell |-> 12, line |-> 318, uses |-> {"XmlSerializer", "open", "system", "work_folder"},
          binds |-> {"f"}],
         [cell |-> 13, line |-> 337, uses |-> {"LangevinIntegrator", "friction", "temperature", "timestep"},
          binds |-> {"integrator"}],
         [cell |-> 13, line |-> 339, uses |-> {"Simulation", "integrator", "platform", "prmtop", "system"},
          binds |-> {"simulation"}],
         [cell |-> 13, line |-> 345, uses |-> {"inpcrd", "simulation"}, binds |-> {}],
         [cell |-> 14, line |-> 363, uses |-> {"simtk_unit", "simulation"}, binds |-> {}],
         [cell |-> 15, line |-> 383, uses |-> {}, binds |-> {"output_freq"}],
         [cell |-> 15, line |-> 384, uses |-> {}, binds |-> {"equil_steps"}],
         [cell |-> 16, line |-> 394, uses |-> {"DCDReporter", "output_freq", "work_folder"},
          binds |-> {"dcd_reporter"}],
         [cell |-> 16, line |-> 395, uses |-> {"StateDataReporter", "output_freq", "work_folder"},
          binds |-> {"state_reporter"}],
         [cell |-> 16, line |-> 407, uses |-> {"dcd_reporter", "simulation"}, binds |-> {}],
         [cell |-> 16, line |-> 408, uses |-> {"simulation", "state_reporter"}, binds |-> {}],
         [cell |-> 17, line |-> 418, uses |-> {"equil_steps", "simulation"}, binds |-> {}],
         [cell |-> 18, line |-> 428, uses |-> {"simulation", "work_folder"}, binds |-> {}],
         [cell |-> 18, line |-> 429, uses |-> {"PDBFile", "open", "prmtop", "simulation", "work_folder"},
          binds |-> {"f"}],
         [cell |-> 19, line |-> 452, uses |-> {}, binds |-> {"lambda_values"}],
         [cell |-> 19, line |-> 453, uses |-> {"lambda_values", "len"}, binds |-> {"n_lambda"}],
         [cell |-> 19, line |-> 455, uses |-> {}, binds |-> {"output_freq"}],
         [cell |-> 19, line |-> 456, uses |-> {}, binds |-> {"equil_steps"}],
         [cell |-> 19, line |-> 457, uses |-> {}, binds |-> {"prod_steps"}],
         [cell |-> 19, line |-> 459, uses |-> {"int", "output_freq", "prod_steps"},
          binds |-> {"total_iterations"}],
         [cell |-> 19, line |-> 461, uses |-> {"n_lambda", "np", "total_iterations"}, binds |-> {"u_kln"}],
         [cell |-> 20, line |-> 471, uses |-> {"LangevinIntegrator", "friction", "temperature", "timestep"},
          binds |-> {"integrator"}],
         [cell |-> 20, line |-> 473, uses |-> {"Simulation", "integrator", "platform", "prmtop", "system"},
          binds |-> {"simulation"}],
         [cell |-> 20, line |-> 479, uses |-> {"simulation", "work_folder"}, binds |-> {}],
         [cell |-> 21, line |-> 507,
          uses |-> {"DCDReporter", "StateDataReporter", "enumerate", "equil_steps", "kT",
                   "lambda_values", "output_freq", "print", "range", "simulation",
                   "total_iterations", "u_kln", "work_folder"},
          binds |-> {"dcd_reporter", "k", "l", "lb1", "lb2", "n", "state_reporter"}],
         [cell |-> 22, line |-> 554, uses |-> {"np", "u_kln", "work_folder"}, binds |-> {}],
         [cell |-> 23, line |-> 573, uses |-> {"n_lambda", "np"}, binds |-> {"N_k"}],
         [cell |-> 23, line |-> 575, uses |-> {"N_k", "len", "n_lambda", "range", "timeseries", "u_kln"},
          binds |-> {"Neff_max", "g", "indices", "k", "nequil"}],
         [cell |-> 24, line |-> 589, uses |-> {"MBAR", "N_k", "u_kln"}, binds |-> {"mbar"}],
         [cell |-> 24, line |-> 590, uses |-> {"mbar"}, binds |-> {"DeltaF_ij", "Theta_ij", "dDeltaF_ij"}],
         [cell |-> 24, line |-> 591, uses |-> {"mbar"}, binds |-> {"ODeltaF_ij"}],
         [cell |-> 25, line |-> 619, uses |-> {"kT", "simtk_unit"}, binds |-> {"convert_kcalmol"}],
         [cell |-> 25, line |-> 620,
          uses |-> {"DeltaF_ij", "convert_kcalmol", "dDeltaF_ij", "enumerate", "lambda_values",
                   "print"},
          binds |-> {"k", "lb"}],
         [cell |-> 26, line |-> 654, uses |-> {"plt"}, binds |-> {}],
         [cell |-> 26, line |-> 655, uses |-> {"ODeltaF_ij", "plt"}, binds |-> {}],
         [cell |-> 26, line |-> 656, uses |-> {"plt"}, binds |-> {}],
         [cell |-> 26, line |-> 657, uses |-> {"plt"}, binds |-> {}],
         [cell |-> 26, line |-> 658, uses |-> {"plt"}, binds |-> {}],
         [cell |-> 26, line |-> 660, uses |-> {"plt"}, binds |-> {"cbar"}],
         [cell |-> 26, line |-> 661, uses |-> {"cbar"}, binds |-> {}]
      >>
      [] nbk = "elec_vac" ->
      <<
         [cell |-> 0, line |-> 683, uses |-> {}, binds |-> {"os"}],
         [cell |-> 0, line |-> 684, uses |-> {}, binds |-> {"np"}],
         [cell |-> 0, line |-> 685, uses |-> {}, binds |-> {"plt"}],
         [cell |-> 0, line |-> 687, uses |-> {}, binds |-> {"MBAR", "timeseries"}],
         [cell |-> 0, line |-> 689, uses |-> {}, binds |-> {"simtk_unit"}],
         [cell |-> 0, line |-> 690,
          uses |-> {},
          binds |-> {"AmberInpcrdFile", "AmberPrmtopFile", "DCDReporter", "HBonds", "NoCutoff",
                    "PDBFile", "Simulation", "StateDataReporter"}],
         [cell |-> 0, line |-> 700,
          uses |-> {},
          binds |-> {"CustomBondForce", "CustomNonbondedForce", "LangevinIntegrator",
                    "MonteCarloBarostat", "NonbondedForce", "Platform", "XmlSerializer"}],
         [cell |-> 1, line |-> 726, uses |-> {}, binds |-> {"add_lambda_elec"}],
         [cell |-> 2, line |-> 769, uses |-> {}, binds |-> {"create_custom_LJ"}],
         [cell |-> 3, line |-> 809, uses |-> {}, binds |-> {"turn_off_nonbonded"}],
         [cell |-> 4, line |-> 849, uses |-> {}, binds |-> {"build_folder"}],
         [cell |-> 4, line |-> 850, uses |-> {}, binds |-> {"work_folder"}],
         [cell |-> 4, line |-> 851, uses |-> {"os", "work_folder"}, binds |-> {}],
         [cell |-> 5, line |-> 861, uses |-> {"Platform"}, binds |-> {"platform"}],
         [cell |-> 6, line |-> 873, uses |-> {"AmberPrmtopFile", "build_folder"}, binds |-> {"prmtop"}],
         [cell |-> 6, line |-> 874, uses |-> {"AmberInpcrdFile", "build_folder"}, binds |-> {"inpcrd"}],
         [cell |-> 7, line |-> 884, uses |-> {"prmtop"}, binds |-> {"ethanol"}],
         [cell |-> 8, line |-> 894, uses |-> {"HBonds", "NoCutoff", "prmtop"}, binds |-> {"system"}],
         [cell |-> 9, line |-> 907, uses |-> {"simtk_unit"}, binds |-> {"temperature"}],
         [cell |-> 9, line |-> 908, uses |-> {"simtk_unit"}, binds |-> {"friction"}],
         [cell |-> 9, line |-> 909, uses |-> {"simtk_unit"}, binds |-> {"timestep"}],
         [cell |-> 9, line |-> 910, uses |-> {"simtk_unit", "temperature"}, binds |-> {"kT"}],
         [cell |-> 10, line |-> 920, uses |-> {"NonbondedForce", "add_lambda_elec", "ethanol", "system"},
          binds |-> {}],
         [cell |-> 10, line |-> 921,
          uses |-> {"CustomBondForce", "NonbondedForce", "create_custom_LJ", "ethanol",
                   "system"},
          binds |-> {}],
         [cell |-> 10, line |-> 922, uses |-> {"NonbondedForce", "ethanol", "system", "turn_off_nonbonded"},
          binds |-> {}],
         [cell |-> 11, line |-> 932, uses |-> {"XmlSerializer", "open", "system", "work_folder"},
          binds |-> {"f"}],
         [cell |-> 12, line |-> 951, uses |-> {"LangevinIntegrator", "friction", "temperature", "timestep"},
          binds |-> {"integrator"}],
         [cell |-> 12, line |-> 953, uses |-> {"Simulation", "integrator", "platform", "prmtop", "system"},
          binds |-> {"simulation"}],
         [cell |-> 12, line |-> 959, uses |-> {"inpcrd", "simulation"}, binds |-> {}],
         [cell |-> 13, line |-> 977, uses |-> {"simtk_unit", "simulation"}, binds |-> {}],
         [cell |-> 14, line |-> 997, uses |-> {}, binds |-> {"output_freq"}],
         [cell |-> 14, line |-> 998, uses |-> {}, binds |-> {"equil_steps"}],
         [cell |-> 15, line |-> 1008, uses |-> {"DCDReporter", "output_freq", "work_folder"},
          binds |-> {"dcd_reporter"}],
         [cell |-> 15, line |-> 1009, uses |-> {"StateDataReporter", "output_freq", "work_folder"},
          binds |-> {"state_reporter"}],
         [cell |-> 15, line |-> 1021, uses |-> {"dcd_reporter", "simulation"}, binds |-> {}],
         [cell |-> 15, line |-> 1022, uses |-> {"simulation", "state_reporter"}, binds |-> {}],
         [cell |-> 16, line |-> 1032, uses |-> {"equil_steps", "simulation"}, binds |-> {}],
         [cell |-> 17, line |-> 1042, uses |-> {"simulation", "work_folder"}, binds |-> {}],
         [cell |-> 17, line |-> 1043, uses |-> {"PDBFile", "open", "prmtop", "simulation", "work_folder"},
          binds |-> {"f"}],
         [cell |-> 18, line |-> 1066, uses |-> {}, binds |-> {"lambda_values"}],
         [cell |-> 18, line |-> 1067, uses |-> {"lambda_values", "len"}, binds |-> {"n_lambda"}],
         [cell |-> 18, line |-> 1069, uses |-> {}, binds |-> {"output_freq"}],
         [cell |-> 18, line |-> 1070, uses |-> {}, binds |-> {"equil_steps"}],
         [cell |-> 18, line |-> 1071, uses |-> {}, binds |-> {"prod_steps"}],
         [cell |-> 18, line |-> 1073, uses |-> {"int", "output_freq", "prod_steps"},
          binds |-> {"total_iterations"}],
         [cell |-> 18, line |-> 1075, uses |-> {"n_lambda", "np", "total_iterations"}, binds |-> {"u_kln"}],
         [cell |-> 19, line |-> 1085, uses |-> {"LangevinIntegrator", "friction", "temperature", "timestep"},
          binds |-> {"integrator"}],
         [cell |-> 19, line |-> 1087, uses |-> {"Simulation", "integrator", "platform", "prmtop", "system"},
          binds |-> {"simulation"}],
         [cell |-> 19, line |-> 1093, uses |-> {"simulation", "work_folder"}, binds |-> {}],
         [cell |-> 20, line |-> 1121,
          uses |-> {"DCDReporter", "StateDataReporter", "enumerate", "equil_steps", "kT",
                   "lambda_values", "output_freq", "print", "range", "simulation",
                   "total_iterations", "u_kln", "work_folder"},
          binds |-> {"dcd_reporter", "k", "l", "lb1", "lb2", "n", "state_reporter"}],
         [cell |-> 21, line |-> 1168, uses |-> {"np", "u_kln", "work_folder"}, binds |-> {}],
         [cell |-> 22, line |-> 1187, uses |-> {"n_lambda", "np"}, binds |-> {"N_k"}],
         [cell |-> 22, line |-> 1189, uses |-> {"N_k", "len", "n_lambda", "range", "timeseries", "u_kln"},
          binds |-> {"Neff_max", "g", "indices", "k", "nequil"}],
         [cell |-> 23, line |-> 1203, uses |-> {"MBAR", "N_k", "u_kln"}, binds |-> {"mbar"}],
         [cell |-> 23, line |-> 1204, uses |-> {"mbar"}, binds |-> {"DeltaF_ij", "Theta_ij", "dDeltaF_ij"}],
         [cell |-> 23, line |-> 1205, uses |-> {"mbar"}, binds |-> {"ODeltaF_ij"}],
         [cell |-> 24, line |-> 1233, uses |-> {"kT", "simtk_unit"}, binds |-> {"convert_kcalmol"}],
         [cell |-> 24, line |-> 1234,
          uses |-> {"DeltaF_ij", "convert_kcalmol", "dDeltaF_ij", "enumerate", "lambda_values",
                   "print"},
          binds |-> {"k", "lb"}],
         [cell |-> 25, line |-> 1270, uses |-> {"plt"}, binds |-> {}],
         [cell |-> 25, line |-> 1271, uses |-> {"ODeltaF_ij", "plt"}, binds |-> {}],
         [cell |-> 25, line |-> 1272, uses |-> {"plt"}, binds |-> {}],
         [cell |-> 25, line |-> 1273, uses |-> {"plt"}, binds |-> {}],
         [cell |-> 25, line |-> 1274, uses |-> {"plt"}, binds |-> {}],
         [cell |-> 25, line |-> 1275, uses |-> {"plt"}, binds |-> {}],
         [cell |-> 25, line |-> 1276, uses |-> {"plt"}, binds |-> {"cbar"}],
         [cell |-> 25, line |-> 1277, uses |-> {"cbar"}, binds |-> {}]
      >>

\* a kernel that was just started knows the built-in names; these are the ones
\* the notebooks read
InitKernel ==
    /\ notebook \in Notebooks
    /\ namespace = {"enumerate", "int", "len", "open", "print", "range"}
    /\ calls = Statements(notebook)
    /\ pc = "run_all"
    /\ error = "none"
    /\ system = << >> /\ original = << >> /\ molecule = {} /\ solvent = {}
    /\ k_idx = 0 /\ n_idx = 0 /\ l_idx = 0
    /\ parameters = << >> /\ microstate = 0 /\ currentStep = 0
    /\ reporters = << >> /\ files = << >> /\ u_kln = << >>
    /\ nodes = << >> /\ events = << >> /\ writes = << >>
    /\ altOrder = << >> /\ altParameters = << >> /\ altMicrostate = 0 /\ altU = << >>
    /\ NoAnalysis
    /\ forcefield_name = << >> /\ template = "unbound" /\ forcefield = << >>
    /\ modeller = << >> /\ omm_systems = << >> /\ printed = << >>

\* the next statement runs: every name it reads is bound, and it binds its names
Execute ==
    /\ pc = "run_all" /\ calls # << >>
    /\ Head(calls).uses \subseteq namespace
    /\ namespace' = namespace \cup Head(calls).binds
    /\ calls' = Tail(calls)
    /\ pc' = IF Tail(calls) = << >> THEN "finished" ELSE "run_all"
    /\ UNCHANGED <<notebook, system, original, molecule, solvent, enginevars, k_idx,
                   u_kln, analysisvars, forcefield_name, template, forcefield,
                   modeller, omm_systems, printed, error>>

\* the next statement reads a name that is not bound: NameError, nothing is
\* bound, and the cells after it are not run
RaiseNameError ==
    /\ pc = "run_all" /\ calls # << >>
    /\ ~(Head(calls).uses \subseteq namespace)
    /\ error' = "NameError"
    /\ pc' = "stopped"
    /\ UNCHANGED <<buildvars, enginevars, k_idx, u_kln, analysisvars, createvars>>

SpecKernel == InitKernel /\ [][Execute \/ RaiseNameError]_vars

----------------------------------------------------------------------------
(* Properties of the constructed interaction model.                        *)

BuildDone == calls = << >>
AllPairs == IntraPairs(molecule \cup solvent)
SolutePairs == { p \in AllPairs : p[1] \in molecule \/ p[2] \in molecule }

\* the context of the modified system with one control parameter set
ContextAt(name, L) == setParameter(ContextParameters(system), name, Lam(L))

OriginalNonbonded == GetNonbonded(original)
OriginalLJ(i, j, r) ==
    NonbondedLJ(OriginalNonbonded, ContextParameters(original), i, j, r)
OriginalChargeProd(i, j) ==
    NonbondedChargeProd(OriginalNonbonded, ContextParameters(original), i, j)

\* the CustomBondForce part of the pair's Lennard-Jones energy
RECURSIVE BondPartLJ(_, _, _, _, _)
BondPartLJ(sys, i, j, r, n) ==
    IF n = 0 THEN RZero
    ELSE RAdd(BondPartLJ(sys, i, j, r, n - 1),
              IF sys[n].type = "CustomBondForce"
              THEN ForceLJ(sys[n], << >>, i, j, r) ELSE RZero)

\* the CustomNonbondedForce part of the pair's Lennard-Jones energy
RECURSIVE CustomNonbondedPartLJ(_, _, _, _, _, _)
CustomNonbondedPartLJ(sys, ctx, i, j, r, n) ==
    IF n = 0 THEN RZero
    ELSE RAdd(CustomNonbondedPartLJ(sys, ctx, i, j, r, n - 1),
              IF sys[n].type = "CustomNonbondedForce"
              THEN ForceLJ(sys[n], ctx, i, j, r) ELSE RZero)

\* C1: in the vdW notebook, with lambda_sterics = 1, every atom pair has, summed
\* over the zeroed NonbondedForce, the soft-core CustomNonbondedForce and the
\* CustomBondForce, the Lennard-Jones energy it has in the original NonbondedForce.
C1_LJ_restored_at_lambda_1 ==
    (BuildDone /\ notebook = "vdw_bulk") =>
        \A p \in AllPairs : \A r \in Dists :
            PairLJ(system, ContextAt("lambda_sterics", 10), p[1], p[2], r)
                = OriginalLJ(p[1], p[2], r)

\* C2: in the vdW notebook, with lambda_sterics = 0, the soft-core term is zero for
\* every solute-solvent pair at every distance, and the Lennard-Jones energy of
\* every pair with a solute atom is its CustomBondForce part alone.
C2_softcore_zero_at_lambda_0 ==
    (BuildDone /\ notebook = "vdw_bulk") =>
        /\ \A i \in molecule : \A j \in solvent : \A r \in Dists :
              CustomNonbondedPartLJ(system, ContextAt("lambda_sterics", 0),
                                    i, j, r, Len(system)) = RZero
        /\ \A p \in SolutePairs : \A r \in Dists :
              PairLJ(system, ContextAt("lambda_sterics", 0), p[1], p[2], r)
                  = BondPartLJ(system, p[1], p[2], r, Len(system))

\* C2 witness: a finished vdW set-up in which a solute-solvent pair has a soft-core
\* term that is not zero when coupled, and a solute pair has a bonded term.
C2_witness ==
    /\ BuildDone /\ notebook = "vdw_bulk"
    /\ \E i \in molecule : \E j \in solvent : \E r \in Dists :
          CustomNonbondedPartLJ(system, ContextAt("lambda_sterics", 10),
                                i, j, r, Len(system)) # RZero
    /\ \E p \in SolutePairs : \E r \in Dists :
          BondPartLJ(system, p[1], p[2], r, Len(system)) # RZero

\* C3: in the electrostatics notebooks, for every lambda of the schedule the
\* effective charge of each solute atom is lambda times its original charge and
\* the effective charge product of each solute-solute exception is lambda times
\* its original charge product.
C3_charges_scale_with_lambda ==
    (BuildDone /\ notebook \in {"elec_bulk", "elec_vac"}) =>
        \A l \in DOMAIN lambda_values :
            LET ctx == ContextAt("lambda_electrostatics", lambda_values[l])
                nb  == GetNonbonded(system)
            IN  /\ \A i \in molecule :
                      ParticleCharge(nb, ctx, i)
                          = RMul(Lam(lambda_values[l]),
                                 RInt(OriginalNonbonded.particles[i].charge))
                /\ \A e \in DOMAIN nb.exceptions :
                      (nb.exceptions[e].p1 \in molecule /\ nb.exceptions[e].p2 \in molecule)
                      => ExceptionChargeProd(nb, ctx, e)
                          = RMul(Lam(lambda_values[l]),
                                 RInt(OriginalNonbonded.exceptions[e].chargeProd))

\* C3 witness: a finished electrostatics set-up whose solute has a charged atom
\* and a solute-solute exception with a charge product.
C3_witness ==
    /\ BuildDone /\ notebook \in {"elec_bulk", "elec_vac"}
    /\ \E i \in molecule : OriginalNonbonded.particles[i].charge # 0
    /\ \E e \in DOMAIN OriginalNonbonded.exceptions :
          /\ OriginalNonbonded.exceptions[e].p1 \in molecule
          /\ OriginalNonbonded.exceptions[e].p2 \in molecule
          /\ OriginalNonbonded.exceptions[e].chargeProd # 0
    /\ ParticleCharge(GetNonbonded(system), ContextAt("lambda_electrostatics", 5), 0)
          = RMul(Lam(5), RInt(OriginalNonbonded.particles[0].charge))

\* C4: in the electrostatics notebooks, with lambda_electrostatics = 1, every pair
\* with a solute atom has the charge product and the Lennard-Jones energy it has
\* in the unmodified system.
C4_solute_energy_restored_at_lambda_1 ==
    (BuildDone /\ notebook \in {"elec_bulk", "elec_vac"}) =>
        \A p \in SolutePairs :
            /\ NonbondedChargeProd(GetNonbonded(system),
                                   ContextAt("lambda_electrostatics", 10), p[1], p[2])
                  = OriginalChargeProd(p[1], p[2])
            /\ \A r \in Dists :
                  PairLJ(system, ContextAt("lambda_electrostatics", 10), p[1], p[2], r)
                      = OriginalLJ(p[1], p[2], r)

----------------------------------------------------------------------------
(* Properties of the alchemical run.                                       *)

RunDone == pc = "done"
Ctrl == ControlParameter(notebook)
Written(kk, ll, nn) == writes[kk][ll][nn] > 0
StepEvents == { i \in 1..Len(events) : events[i].call = "step" }

\* the microstate the n-th production step of state k ended in
ProductionMicrostate(kk, nn) ==
    LET i == CHOOSE i \in StepEvents :
                 events[i].phase = "prod" /\ events[i].k = kk /\ events[i].n = nn
    IN  events[i].microstate

\* C5: every integration step of block k, re-equilibration or production, runs
\* with the control parameter at lambda_values[k]; a value the inner loop set is
\* never in effect during a step, and u[k,k,n] is the energy of a microstate
\* that was produced under state k.
C5_steps_run_at_block_lambda ==
    pc # "setup" =>
        /\ \A i \in StepEvents :
              /\ events[i].lam = Lam(lambda_values[events[i].k])
              /\ nodes[events[i].microstate].parameters[Ctrl]
                    = Lam(lambda_values[events[i].k])
        /\ \A kk \in DOMAIN u_kln : \A nn \in DOMAIN u_kln[kk][kk] :
              Written(kk, kk, nn) =>
                  nodes[u_kln[kk][kk][nn].microstate].parameters[Ctrl]
                      = Lam(lambda_values[kk])

\* C5 witness: a production step was taken right after an inner loop that had
\* left the control parameter at another lambda.
C5_witness ==
    \E i \in StepEvents :
        /\ events[i].phase = "prod" /\ events[i].n >= 1
        /\ events[i - 2].call = "getState"
        /\ events[i - 2].lam # events[i].lam

\* C6: for each state k and sample n, all energies u[k,l,n] are evaluated on one
\* and the same microstate: the microstate does not change from the first to the
\* last evaluation of an inner loop.
C6_one_microstate_per_sample ==
    pc # "setup" =>
        /\ \A kk \in DOMAIN u_kln : \A nn \in DOMAIN u_kln[kk][kk] :
              \A l1, l2 \in DOMAIN u_kln[kk] :
                  (Written(kk, l1, nn) /\ Written(kk, l2, nn))
                  => u_kln[kk][l1][nn].microstate = u_kln[kk][l2][nn].microstate
        /\ (pc \in {"eval_set", "eval_energy"} /\ l_idx > 0)
              => u_kln[k_idx][0][n_idx].microstate = microstate

\* C6 witness: an inner loop has evaluated its last lambda.
C6_witness ==
    /\ pc = "prod_set" /\ n_idx >= 1
    /\ Written(k_idx, n_lambda - 1, n_idx - 1)
    /\ u_kln[k_idx][n_lambda - 1][n_idx - 1].parameters
          # u_kln[k_idx][0][n_idx - 1].parameters

\* C7: the sequence of microstates and, between inner loops, the reduced-potential
\* matrix the production loop records are those of a run that visits the
\* evaluation lambdas in another order.
C7_evaluation_order_is_immaterial ==
    pc # "setup" =>
        /\ altMicrostate = microstate
        /\ pc \notin {"eval_set", "eval_energy", "failed"} /\ ~Analysing => altU = u_kln
        /\ Analysing => altU = Recorded

\* C7 witness: a finished run whose comparison run visited the lambdas in an
\* order that is not the ascending one.
C7_witness ==
    /\ RunDone
    /\ \E i \in DOMAIN altOrder : altOrder[i] # i
    /\ total_iterations >= 2

\* C8: no entry of u_kln is assigned more than once, and when the run has
\* finished every entry u[k,l,n] has been assigned exactly once and is the energy
\* of the n-th production microstate of state k under lambda_values[l], none
\* being left at its initial zero.
C8_matrix_written_once ==
    pc # "setup" =>
        /\ \A kk \in DOMAIN u_kln : \A ll \in DOMAIN u_kln[kk] :
              \A nn \in DOMAIN u_kln[kk][ll] : writes[kk][ll][nn] <= 1
        /\ RunDone =>
              \A kk \in DOMAIN u_kln : \A ll \in DOMAIN u_kln[kk] :
                  \A nn \in DOMAIN u_kln[kk][ll] :
                      /\ writes[kk][ll][nn] = 1
                      /\ u_kln[kk][ll][nn] # np_zero
                      /\ u_kln[kk][ll][nn]
                            = ReducedPotential(
                                  ProductionMicrostate(kk, nn),
                                  setParameter(ContextParameters(system), Ctrl,
                                               Lam(lambda_values[ll])))

\* C8 witness: a finished run with a matrix of more than one state and sample.
C8_witness ==
    /\ RunDone
    /\ n_lambda >= 2 /\ total_iterations >= 2
    /\ u_kln[n_lambda - 1][0][total_iterations - 1] # np_zero

\* the calls that start a block
BlockStarts ==
    SelectSeq(events, LAMBDA e : e.call = "setParameter" /\ e.phase = "block")

\* C9: the schedule is the 11 evenly spaced values 0.0, 0.1, ..., 1.0 in every
\* notebook; the states are sampled in ascending order, each exactly once, and
\* state k is finished before state k+1 is started.
C9_schedule_ascending_each_once ==
    pc # "setup" =>
        /\ lambda_values = [i \in 0..10 |-> i]
        /\ LET starts == BlockStarts
           IN  \A i \in 1..Len(starts) :
                  /\ starts[i].k = i - 1
                  /\ starts[i].lam = Lam(i - 1)
        /\ \A i \in 1..(Len(events) - 1) :
              events[i + 1].call # "np.save" => events[i].k <= events[i + 1].k
        /\ RunDone => Len(BlockStarts) = 11

\* C9 witness: a finished run, all blocks started.
C9_witness ==
    /\ RunDone
    /\ Len(BlockStarts) = n_lambda
    /\ events[Len(events)].call = "np.save"

\* the order of engine calls C10 states, for all blocks
ClaimedCall(call, phase, kk, nn, ll) ==
    [call |-> call, phase |-> phase, k |-> kk, n |-> nn, l |-> ll]

ClaimedEvaluations(kk, nn) ==
    [i \in 1..n_lambda |-> ClaimedCall("getState", "eval", kk, nn, i - 1)]

RECURSIVE ClaimedProduction(_, _)
ClaimedProduction(kk, nn) ==
    IF nn = 0 THEN << >>
    ELSE ClaimedProduction(kk, nn - 1)
         \o << ClaimedCall("step", "prod", kk, nn - 1, -1) >>
         \o ClaimedEvaluations(kk, nn - 1)

RECURSIVE ClaimedBlocks(_)
ClaimedBlocks(kk) ==
    IF kk = 0 THEN << >>
    ELSE ClaimedBlocks(kk - 1)
         \o << ClaimedCall("setParameter", "block", kk - 1, -1, -1),
               ClaimedCall("step", "equil", kk - 1, -1, -1) >>
         \o ClaimedProduction(kk - 1, total_iterations)
         \o << ClaimedCall("saveState", "block", kk - 1, -1, -1) >>

ClaimedOrder == ClaimedBlocks(n_lambda)

\* the calls of the run that C10 speaks of, in the order they were made
OrderedCalls ==
    LET sel == SelectSeq(events, LAMBDA e :
                   \/ e.call \in {"step", "getState", "saveState"}
                   \/ e.call = "setParameter" /\ e.phase = "block")
    IN  [i \in 1..Len(sel) |->
            ClaimedCall(sel[i].call, sel[i].phase, sel[i].k, sel[i].n, sel[i].l)]

\* C10: within a block the control parameter is set first, then the
\* re-equilibration steps run, then each production block advances the dynamics
\* and then evaluates the energies, and the state is saved after all production
\* blocks; no sample of the block is recorded before its re-equilibration is over.
C10_block_order ==
    pc # "setup" =>
        /\ LET made == OrderedCalls
           IN  /\ Len(made) <= Len(ClaimedOrder)
               /\ made = SubSeq(ClaimedOrder, 1, Len(made))
        /\ pc \in {"set_lambda", "equil", "add_reporters"} =>
              \A ll \in DOMAIN u_kln[k_idx] : \A nn \in DOMAIN u_kln[k_idx][ll] :
                  writes[k_idx][ll][nn] = 0

\* C10 witness: a second block has been saved after its production blocks.
C10_witness ==
    /\ pc = "pop_reporters" /\ k_idx >= 1
    /\ Len(OrderedCalls) > 0
    /\ OrderedCalls[Len(OrderedCalls)].call = "saveState"


----------------------------------------------------------------------------
(* Properties of the analysis.                                             *)


\* C11: for every state k, no retained sample index is smaller than the
\* equilibration cutoff nequil detected for the series of k.
C11_burn_in_discarded ==
    Analysing =>
        \A kk \in DOMAIN retained : \A j \in DOMAIN retained[kk] :
            retained[kk][j] >= statistics[kk].nequil

\* C12: the retained indices of every state are strictly increasing and lie in
\* 0 .. total_iterations - 1, N_k[k] is their number and 1 <= N_k[k] <=
\* total_iterations; the estimator is given the n_lambda x n_lambda x
\* total_iterations matrix and a count vector of length n_lambda.
C12_indices_increasing_in_range ==
    /\ pc = "compact" =>
          /\ \A j \in DOMAIN indices : indices[j] \in 0..(total_iterations - 1)
          /\ ZLen(indices) >= 1
    /\ Analysing =>
          \A kk \in DOMAIN retained :
              /\ DOMAIN retained[kk] = 0..(N_k[kk] - 1)
              /\ N_k[kk] >= 1 /\ N_k[kk] <= total_iterations
              /\ \A j \in DOMAIN retained[kk] :
                    /\ retained[kk][j] \in 0..(total_iterations - 1)
                    /\ j > 0 => retained[kk][j - 1] < retained[kk][j]
    /\ pc = "analysed" =>
          /\ DOMAIN mbar.N_k = 0..(n_lambda - 1)
          /\ mbar.N_k = N_k
          /\ DOMAIN mbar.u_kln = 0..(n_lambda - 1)
          /\ \A kk \in DOMAIN mbar.u_kln :
                /\ DOMAIN mbar.u_kln[kk] = 0..(n_lambda - 1)
                /\ \A ll \in DOMAIN mbar.u_kln[kk] :
                      DOMAIN mbar.u_kln[kk][ll] = 0..(total_iterations - 1)
          /\ \A kk \in DOMAIN N_k : N_k[kk] <= total_iterations

C12_witness ==
    /\ pc = "analysed"
    /\ \E kk \in DOMAIN N_k : N_k[kk] = total_iterations
    /\ \E kk \in DOMAIN N_k : N_k[kk] < total_iterations

\* C13: after decorrelation u_kln[k, l, j] for j < N_k[k] is the value the
\* production loop recorded at [k, l, indices_k[j]], with the one index set
\* of state k for every l; indices_k is chosen from the recorded diagonal
\* series of k, and the rows of the states not yet compacted are as recorded.
C13_retained_samples_are_recorded_values ==
    Analysing =>
        /\ \A kk \in DOMAIN retained : \A ll \in DOMAIN u_kln[kk] :
              \A j \in DOMAIN retained[kk] :
                  u_kln[kk][ll][j] = Recorded[kk][ll][retained[kk][j]]
        /\ \A kk \in DOMAIN u_kln : kk \notin DOMAIN retained => u_kln[kk] = Recorded[kk]

C13_witness ==
    /\ pc = "analysed"
    /\ \E kk \in DOMAIN retained :
          /\ N_k[kk] > 1
          /\ retained[kk][1] > 1
          /\ \E ll \in DOMAIN u_kln[kk] : ll # kk /\ u_kln[kk][ll][1] # Recorded[kk][ll][1]

\* C14 as stated: after the analysis the matrix in memory holds the values it
\* had at the end of production.
C14_matrix_unchanged_by_analysis ==
    pc = "analysed" => u_kln = Recorded

\* C14, amended: decorrelation rewrites only the first N_k[k] samples of each
\* row k; every entry at a sample index j >= N_k[k] holds the value
\* production recorded, the estimator is handed the matrix and leaves it as it
\* was, and the saved array file is not touched by the analysis.
C14_analysis_rewrites_only_retained_prefix ==
    /\ Analysing =>
          \A kk \in DOMAIN u_kln : \A ll \in DOMAIN u_kln[kk] :
              \A nn \in DOMAIN u_kln[kk][ll] :
                  nn >= N_k[kk] => u_kln[kk][ll][nn] = Recorded[kk][ll][nn]
    /\ pc = "analysed" =>
          /\ mbar.u_kln = u_kln
          /\ \A kk \in DOMAIN Recorded : \A ll \in DOMAIN Recorded[kk] :
                \A nn \in DOMAIN Recorded[kk][ll] :
                    Recorded[kk][ll][nn] =
                        ReducedPotential(
                            ProductionMicrostate(kk, nn),
                            setParameter(ContextParameters(system), Ctrl,
                                         Lam(lambda_values[ll])))

C14_witness ==
    /\ pc = "analysed"
    /\ \E kk \in DOMAIN N_k : N_k[kk] < total_iterations
    /\ u_kln # Recorded


----------------------------------------------------------------------------
(* Properties of the checkpoints and the reporters.                        *)

\* where the notebook is: before the loop over k, at the head of a block (with
\* its re-equilibration), in the production of a block, or after the loop
Phase ==
    CASE pc \in {"minimize", "equil_reporters", "initial_equil", "save_equil",
                 "run_constants", "new_simulation"} -> "before"
      [] pc \in {"set_lambda", "equil", "add_reporters"} -> "head"
      [] pc \in {"prod_set", "prod_step", "eval_set", "eval_energy",
                 "save_state", "pop_reporters"} -> "production"
      [] pc \in {"save_array", "done"} \/ Analysing -> "after"
      [] OTHER -> pc
\* the blocks whose production has been checkpointed
Checkpointed ==
    IF Phase = "before" THEN {}
    ELSE IF Phase = "after" THEN 0..(n_lambda - 1)
    ELSE { kk \in 0..(n_lambda - 1) : kk < k_idx \/ (kk = k_idx /\ pc = "pop_reporters") }

\* C15: equilibration.xml is written after the initial equilibration and before
\* the alchemical run, and holds the equilibrated microstate; production-{k}.xml
\* exists exactly for the blocks whose production is complete, holds the last
\* production microstate of block k, and is written before any step of block k+1.
C15_checkpoint_after_each_stage ==
    pc # "setup" =>
        /\ EquilibrationFile \in DOMAIN files
              <=> pc \notin {"minimize", "equil_reporters", "initial_equil", "save_equil"}
        /\ EquilibrationFile \in DOMAIN files =>
              LET saved == files[EquilibrationFile].microstate
              IN  /\ nodes[saved].nsteps = equilibration_steps
                  /\ nodes[nodes[saved].parent].nsteps = -1
                  /\ Phase \in {"head", "production", "after"} =>
                        \A i \in StepEvents : events[i].microstate # saved
        /\ \A kk \in 0..(n_lambda - 1) :
              FileName("production", kk, "xml") \in DOMAIN files <=> kk \in Checkpointed
        /\ \A f \in DOMAIN files :
              f.stem = "production" /\ f.ext = "xml" => f.index \in Checkpointed
        /\ LET steps == StepEvents
               saves == { i \in 1..Len(events) : events[i].call = "saveState" }
           IN  /\ \A kk \in Checkpointed :
                     files[FileName("production", kk, "xml")].microstate
                        = ProductionMicrostate(kk, total_iterations - 1)
               /\ \A i \in steps :
                     events[i].k > 0 =>
                        \E j \in saves : j < i /\ events[j].k = events[i].k - 1

\* C15 witness: block 1 has made its re-equilibration steps and the state file
\* of block 0 is there.
C15_witness ==
    /\ pc = "add_reporters"
    /\ k_idx = 1
    /\ FileName("production", 0, "xml") \in DOMAIN files
    /\ EquilibrationFile \in DOMAIN files

\* C16: in the alchemical run no reporter is attached at the head of a block
\* and during its re-equilibration; during the production of block k, until
\* they are removed, exactly the reporters of production-{k}.dcd and
\* production-{k}.log are attached; none is attached after the run; the
\* reporters of the equilibration are never attached in the run and their files
\* get no report from it.
C16_reporters_scoped_to_block ==
    pc # "setup" =>
        /\ Phase \in {"head", "after"} => reporters = << >>
        /\ Phase = "production" =>
              /\ Len(reporters) = 2
              /\ reporters[1].kind = "DCDReporter"
              /\ reporters[1].file = FileName("production", k_idx, "dcd")
              /\ reporters[2].kind = "StateDataReporter"
              /\ reporters[2].file = FileName("production", k_idx, "log")
        /\ Phase \in {"head", "production", "after"} =>
              /\ \A i \in 1..Len(reporters) : reporters[i].file.stem # "equilibration"
              /\ files[FileName("equilibration", -1, "dcd")]
                    = ReportsDue(0, equilibration_steps, equilibration_output_freq)
              /\ files[FileName("equilibration", -1, "log")]
                    = ReportsDue(0, equilibration_steps, equilibration_output_freq)

\* C16 witness: the production of block 1 is over, its two reporters are about
\* to be removed and have written their reports.
C16_witness ==
    /\ pc = "pop_reporters"
    /\ k_idx = 1
    /\ Len(reporters) = 2
    /\ files[FileName("production", 1, "dcd")] > 0
    /\ files[FileName("equilibration", -1, "dcd")] > 0


\* C19: once an engine call of block k has failed nothing more happens: no
\* step, no evaluation, no checkpoint and no array file follow; the state files
\* production-{j}.xml are those of the blocks j < k, and the array file does not
\* exist.
C19_engine_failure_ends_the_run ==
    /\ [](error # "none" =>
             /\ pc = "failed"
             /\ \A j \in 0..(n_lambda - 1) :
                   FileName("production", j, "xml") \in DOMAIN files <=> j < k_idx
             /\ PotentialFile(notebook) \notin DOMAIN files
             /\ ~ENABLED NextRun)
    /\ [][error # "none" => UNCHANGED vars]_vars

\* C19 witness: an energy evaluation of block 1 has failed.
C19_witness ==
    /\ error = "OpenMMException"
    /\ pc = "failed"
    /\ k_idx = 1 /\ n_idx = 1 /\ l_idx = 2
    /\ FileName("production", 0, "xml") \in DOMAIN files


----------------------------------------------------------------------------
(* Properties of the force-construction functions as operations.           *)

\* C20: a call of turn_off_nonbonded leaves every solute atom with charge 0,
\* epsilon 0 and its sigma, every exception between two solute atoms with
\* charge product 0, epsilon 0, its sigma and its atom pair, and changes no
\* other particle, no other exception, nothing else of the NonbondedForce and
\* no other force.
C20_turn_off_nonbonded_zeroes_only_solute ==
    [][(/\ calls # << >> /\ Head(calls) = "turn_off_nonbonded"
        /\ calls' = Tail(calls) /\ error' = "none")
       => LET before == GetNonbonded(system)
              after == GetNonbonded(system')
          IN  /\ DOMAIN system' = DOMAIN system
              /\ NonbondedIndex(system') = NonbondedIndex(system)
              /\ \A i \in DOMAIN system :
                    i # NonbondedIndex(system) => system'[i] = system[i]
              /\ [after EXCEPT !.particles = before.particles,
                               !.exceptions = before.exceptions] = before
              /\ DOMAIN after.particles = DOMAIN before.particles
              /\ \A i \in DOMAIN before.particles :
                    IF i \in molecule
                    THEN /\ after.particles[i].charge = 0
                         /\ after.particles[i].epsilon = 0
                         /\ after.particles[i].sigma = before.particles[i].sigma
                    ELSE after.particles[i] = before.particles[i]
              /\ DOMAIN after.exceptions = DOMAIN before.exceptions
              /\ \A e \in DOMAIN before.exceptions :
                    IF before.exceptions[e].p1 \in molecule
                       /\ before.exceptions[e].p2 \in molecule
                    THEN /\ after.exceptions[e].chargeProd = 0
                         /\ after.exceptions[e].epsilon = 0
                         /\ after.exceptions[e].sigma = before.exceptions[e].sigma
                         /\ after.exceptions[e].p1 = before.exceptions[e].p1
                         /\ after.exceptions[e].p2 = before.exceptions[e].p2
                    ELSE after.exceptions[e] = before.exceptions[e]]_vars

\* C20 witness: turn_off_nonbonded has run on a system whose solute had a
\* charged atom and an exception with a Lennard-Jones term, next to a solvent
\* with charges.
C20_witness ==
    /\ pc = "setup" /\ calls = << >> /\ error = "none"
    /\ SetupCalls(notebook)[Len(SetupCalls(notebook))] = "turn_off_nonbonded"
    /\ \E i \in molecule :
          /\ OriginalNonbonded.particles[i].charge # 0
          /\ GetNonbonded(system).particles[i].charge = 0
    /\ \E e \in DOMAIN OriginalNonbonded.exceptions :
          /\ OriginalNonbonded.exceptions[e].epsilon # 0
          /\ GetNonbonded(system).exceptions[e].epsilon = 0
          /\ GetNonbonded(system).exceptions[e].sigma # 0
    /\ \E i \in solvent : GetNonbonded(system).particles[i].charge # 0


\* C17: a call of a force-construction function on a system that does not hold
\* exactly one NonbondedForce, none or more than one, ends in an error and
\* leaves the system as it was.
C17_fails_unless_exactly_one_NonbondedForce ==
    [][(/\ calls # << >> /\ error = "none"
        /\ Cardinality({ i \in 1..Len(system) : system[i].type = "NonbondedForce" }) # 1)
       => (error' # "none" /\ system' = system)]_vars


----------------------------------------------------------------------------
(* Properties of the system-creation notebook.                             *)

UnknownForceField ==
    upper(forcefield_name) \notin { <<"G", "A", "F", "F">>, <<"S", "A", "G", "E">> }

\* C18 as stated: with a name that is neither GAFF nor SAGE nothing is raised
\* before the system is built, and the failure is that of createSystem.
C18_unknown_name_fails_at_createSystem ==
    notebook = "create_system" /\ UnknownForceField =>
        /\ pc \in {"select", "register"} => error = "none"
        /\ error # "none" => pc = "build"

\* C18, amended: with a name that is neither GAFF nor SAGE, in any mix of
\* cases, the branches of the selection construct no template generator and
\* only print the warning; the failure comes in the same cell, as the
\* NameError of forcefield.registerTemplateGenerator(template.generator), so
\* that addSolvent and createSystem are never reached, no system is built and
\* no file is written. With GAFF or SAGE in any mix of cases nothing fails.
C18_unknown_name_fails_at_registration ==
    notebook = "create_system" =>
        /\ UnknownForceField =>
              /\ template = "unbound"
              /\ pc \in {"select", "register"}
              /\ pc = "register" =>
                    /\ printed = <<"Unknow force field, cannot preceed.",
                                   "Using force field:">>
                    /\ forcefield.generators = << >>
              /\ error \in {"none", "NameError"}
              /\ error = "NameError" => pc = "register"
              /\ modeller = << >> /\ omm_systems = << >> /\ files = << >>
        /\ ~UnknownForceField =>
              /\ error = "none"
              /\ pc # "select" =>
                    /\ template \in {"GAFFTemplateGenerator", "SMIRNOFFTemplateGenerator"}
                    /\ printed = <<"Using force field:">>

\* C18 witness: the cell has failed for a name that is no case variant of GAFF
\* or SAGE, after printing the warning.
C18_witness ==
    /\ notebook = "create_system"
    /\ UnknownForceField
    /\ error = "NameError"
    /\ printed # << >> /\ printed[1] = "Unknow force field, cannot preceed."
    /\ forcefield_name # << >>


----------------------------------------------------------------------------
(* Further properties of the constructed interaction model.                *)

\* C21: every CustomNonbondedForce of the system has one particle per particle
\* of the NonbondedForce createSystem made, at the same index and with that
\* particle's sigma and epsilon, the cutoff distance and the long-range
\* correction flag of the NonbondedForce, and as exclusions exactly the atom
\* pairs of its exceptions.
C21_custom_force_mirrors_base ==
    pc = "setup" =>
        \A f \in 1..Len(system) :
            system[f].type = "CustomNonbondedForce" =>
                /\ DOMAIN system[f].particles = DOMAIN OriginalNonbonded.particles
                /\ \A i \in DOMAIN system[f].particles :
                      /\ system[f].particles[i].sigma = OriginalNonbonded.particles[i].sigma
                      /\ system[f].particles[i].epsilon
                            = OriginalNonbonded.particles[i].epsilon
                /\ system[f].cutoff = OriginalNonbonded.cutoff
                /\ system[f].useLongRangeCorrection
                      = OriginalNonbonded.useDispersionCorrection
                /\ ZLen(system[f].exclusions) = ZLen(OriginalNonbonded.exceptions)
                /\ { {system[f].exclusions[e][1], system[f].exclusions[e][2]} :
                        e \in DOMAIN system[f].exclusions }
                   = { {OriginalNonbonded.exceptions[e].p1,
                        OriginalNonbonded.exceptions[e].p2} :
                        e \in DOMAIN OriginalNonbonded.exceptions }

\* C21 witness: the set-up cell has finished, the system holds a
\* CustomNonbondedForce, and the NonbondedForce no longer has the epsilon of a
\* solute atom whose sigma and epsilon differ.
C21_witness ==
    /\ BuildDone
    /\ \E f \in 1..Len(system) : system[f].type = "CustomNonbondedForce"
    /\ \E i \in molecule :
          /\ OriginalNonbonded.particles[i].epsilon # OriginalNonbonded.particles[i].sigma
          /\ GetNonbonded(system).particles[i].epsilon = 0
    /\ ZLen(OriginalNonbonded.exceptions) > 0


----------------------------------------------------------------------------
(* Further properties of the alchemical run.                               *)

\* C22: in the vdW notebook the CustomNonbondedForce is built with
\* softcore_a = 1, softcore_b = 1, softcore_c = 6 and softcore_alpha = 0.5, the
\* context holds these values in every state of the run, and no global
\* parameter other than the control parameter ever differs from its default.
C22_softcore_parameters_fixed ==
    pc # "setup" =>
        /\ notebook = "vdw_bulk" =>
              /\ \E f \in 1..Len(system) :
                    /\ system[f].type = "CustomNonbondedForce"
                    /\ { system[f].globals[i] : i \in DOMAIN system[f].globals }
                       = { [name |-> "lambda_sterics", value |-> <<0, 1>>],
                           [name |-> "softcore_a", value |-> <<1, 1>>],
                           [name |-> "softcore_b", value |-> <<1, 1>>],
                           [name |-> "softcore_c", value |-> <<6, 1>>],
                           [name |-> "softcore_alpha", value |-> <<1, 2>>] }
              /\ parameters["softcore_a"] = <<1, 1>>
              /\ parameters["softcore_b"] = <<1, 1>>
              /\ parameters["softcore_c"] = <<6, 1>>
              /\ parameters["softcore_alpha"] = <<1, 2>>
        /\ DOMAIN parameters = ParameterNames(system)
        /\ \A name \in DOMAIN parameters :
              name # ControlParameter(notebook) =>
                 parameters[name] = DefaultOf(system, name)

\* C22 witness: the vdW run is in the production of block 1, the control
\* parameter away from its default.
C22_witness ==
    /\ notebook = "vdw_bulk"
    /\ pc = "prod_step" /\ k_idx = 1
    /\ parameters["lambda_sterics"] = <<1, 10>>
    /\ parameters["lambda_sterics"] # DefaultOf(system, "lambda_sterics")
    /\ parameters["softcore_alpha"] = <<1, 2>>


----------------------------------------------------------------------------
(* Properties of the reported free energies.                               *)

\* C23: each leg the README reports is the value the notebook of that leg
\* printed at lambda = 1.0, and combining these legs gives the README's
\* hydration free energy: (-7.52 - (-2.35)) + 1.78 = -3.39 kcal/mol.
C23_readme_consistent_with_notebooks ==
    notebook = "readme" =>
        /\ \A nbk \in Notebooks :
              /\ lambda_values[n_lambda - 1] = 10
              /\ ReadmeFreeEnergies[nbk] = PrintedFreeEnergies(nbk)[n_lambda - 1]
        /\ (pc = "combined" /\ \A nbk \in Notebooks : indices[nbk] = n_lambda - 1)
              => printed = << ReadmeFreeEnergies.solv >>

\* C23 witness: the legs printed at lambda = 1.0 have been combined.
C23_witness ==
    /\ notebook = "readme"
    /\ pc = "combined"
    /\ \A nbk \in Notebooks : indices[nbk] = n_lambda - 1
    /\ printed = << -339 >>


----------------------------------------------------------------------------
(* Cost and termination of the run.                                        *)

\* C24: the run is one sequence of calls that ends: as long as no engine call
\* raises, it reaches the end of the analysis, and nothing runs after it. When
\* the loop is over the simulation has integrated
\* n_lambda * (equil_steps + total_iterations * output_freq) steps, in n_lambda
\* re-equilibrations and n_lambda * total_iterations production segments, and
\* the energy was evaluated n_lambda * n_lambda * total_iterations times; with
\* the constants of the notebooks (500 and 50000 or 100000)
\* total_iterations * output_freq is prod_steps. The matrix is saved once, after
\* the loop, and the analysis is entered once, after the save. Each block adds
\* its share: at the head of block k the counts are k times those of one block.
C24_run_cost_and_termination ==
    /\ [](LET Count(call, phase) ==
                  Cardinality({ i \in 1..Len(events) :
                                  events[i].call = call /\ events[i].phase = phase })
          IN  IF pc \in {"save_array", "done"} \/ Analysing
              THEN /\ currentStep
                          = n_lambda * (equil_steps + total_iterations * output_freq)
                   /\ Count("step", "equil") = n_lambda
                   /\ Count("step", "prod") = n_lambda * total_iterations
                   /\ Count("getState", "eval") = n_lambda * n_lambda * total_iterations
                   /\ Count("np.save", "block") = IF pc = "save_array" THEN 0 ELSE 1
                   /\ (50000 \div 500) * 500 = 50000
                   /\ (100000 \div 500) * 500 = 100000
              ELSE /\ Count("np.save", "block") = 0 /\ mbar = << >>
                   /\ pc = "set_lambda" =>
                        /\ currentStep
                             = k_idx * (equil_steps + total_iterations * output_freq)
                        /\ Count("getState", "eval")
                             = k_idx * n_lambda * total_iterations)
    /\ [][pc # "analysed" /\ (Analysing => Analysing')]_vars
    /\ <>(pc = "analysed" \/ pc = "failed")

C24_witness ==
    /\ pc = "analysed"
    /\ currentStep = n_lambda * (equil_steps + total_iterations * output_freq)
    /\ Cardinality({ i \in 1..Len(events) : events[i].call = "getState" })
           = n_lambda * n_lambda * total_iterations


----------------------------------------------------------------------------
(* The order of the calls of the set-up cell.                              *)

\* C26: in every notebook turn_off_nonbonded is the last call of the set-up
\* cell, after add_LJ_scaling, add_lambda_elec and create_custom_LJ. So each
\* sigma and epsilon of a custom force, each sigma and epsilon of a custom bond,
\* each charge of a particle offset and each charge product of an exception
\* offset is the value the NonbondedForce had when createSystem returned. The
\* order matters: with turn_off_nonbonded first, a solute that has a charge or
\* a well depth gives another system.
C26_copies_precede_turn_off ==
    /\ \A nbk \in Notebooks :
          \A i \in 1..Len(SetupCalls(nbk)) :
              SetupCalls(nbk)[i] = "turn_off_nonbonded" <=> i = Len(SetupCalls(nbk))
    /\ pc = "setup" =>
          /\ \A i \in 1..Len(calls) :
                calls[i] = "turn_off_nonbonded" => i = Len(calls)
          /\ \A f \in 1..Len(system) :
                /\ system[f].type = "CustomNonbondedForce" =>
                      \A i \in DOMAIN system[f].particles :
                          /\ system[f].particles[i].sigma
                                = OriginalNonbonded.particles[i].sigma
                          /\ system[f].particles[i].epsilon
                                = OriginalNonbonded.particles[i].epsilon
                /\ system[f].type = "CustomBondForce" =>
                      \A b \in DOMAIN system[f].bonds :
                          \E e \in DOMAIN OriginalNonbonded.exceptions :
                              LET x == OriginalNonbonded.exceptions[e]
                                  y == system[f].bonds[b]
                              IN  /\ y.p1 = x.p1 /\ y.p2 = x.p2
                                  /\ y.sigma = x.sigma /\ y.epsilon = x.epsilon
                /\ system[f].type = "NonbondedForce" =>
                      /\ \A o \in DOMAIN system[f].particleOffsets :
                            system[f].particleOffsets[o].chargeScale
                               = OriginalNonbonded.particles[
                                     system[f].particleOffsets[o].index].charge
                      /\ \A o \in DOMAIN system[f].exceptionOffsets :
                            system[f].exceptionOffsets[o].chargeScale
                               = OriginalNonbonded.exceptions[
                                     system[f].exceptionOffsets[o].index].chargeProd
          /\ (/\ BuildDone
              /\ \E i \in molecule :
                    IF notebook = "vdw_bulk"
                    THEN OriginalNonbonded.particles[i].epsilon # 0
                    ELSE OriginalNonbonded.particles[i].charge # 0)
             => SetupCell(SetupCalls_turn_off_first(notebook), notebook, original,
                          molecule, solvent) # system

\* C26 witness: the set-up cell has finished in the bulk electrostatics
\* notebook; an offset holds the charge of a solute atom that the NonbondedForce
\* no longer has, and a custom bond holds a well depth that the exception it
\* was copied from no longer has.
C26_witness ==
    /\ BuildDone /\ pc = "setup" /\ notebook = "elec_bulk"
    /\ \E o \in DOMAIN GetNonbonded(system).particleOffsets :
          LET off == GetNonbonded(system).particleOffsets[o]
          IN  /\ off.chargeScale # 0
              /\ GetNonbonded(system).particles[off.index].charge = 0
    /\ \E f \in 1..Len(system) :
          /\ system[f].type = "CustomBondForce"
          /\ \E b \in DOMAIN system[f].bonds : system[f].bonds[b].epsilon # 0
    /\ \E e \in DOMAIN GetNonbonded(system).exceptions :
          /\ OriginalNonbonded.exceptions[e].epsilon # 0
          /\ GetNonbonded(system).exceptions[e].epsilon = 0


----------------------------------------------------------------------------
(* The control parameter in the state files.                               *)

\* C27: whenever production-{k}.xml is written the control parameter has the
\* last value of the schedule, 1.0, which the inner loop over the evaluation
\* lambdas left; every state file holds that value, and it is lambda_values[k]
\* for the last state only.
C27_checkpoint_holds_last_lambda ==
    pc # "setup" =>
        LET last == Lam(lambda_values[n_lambda - 1])
        IN  /\ last = RInt(1)
            /\ pc = "save_state" => parameters[Ctrl] = last
            /\ \A i \in 1..Len(events) :
                  events[i].call = "saveState" =>
                      /\ events[i].lam = last
                      /\ \E j \in 1..(i - 1) :
                            /\ events[j].call = "setParameter"
                            /\ events[j].phase = "eval"
                            /\ events[j].k = events[i].k
                            /\ events[j].l = n_lambda - 1
                            /\ events[j].lam = last
                            /\ \A h \in (j + 1)..(i - 1) :
                                  events[h].call # "setParameter"
            /\ \A kk \in 0..(n_lambda - 1) :
                  FileName("production", kk, "xml") \in DOMAIN files =>
                      LET saved == files[FileName("production", kk, "xml")].parameters
                      IN  /\ saved[Ctrl] = last
                          /\ saved[Ctrl] = Lam(lambda_values[kk]) <=> kk = n_lambda - 1

\* C27 witness: the run is over; the state file of block 3 holds 1.0, not 0.3,
\* and the state file of the last block is there.
C27_witness ==
    /\ pc = "done"
    /\ files[FileName("production", 3, "xml")].parameters[Ctrl] = RInt(1)
    /\ files[FileName("production", 3, "xml")].parameters[Ctrl] # Lam(lambda_values[3])
    /\ FileName("production", n_lambda - 1, "xml") \in DOMAIN files


----------------------------------------------------------------------------
(* The array file.                                                         *)

\* C28: the array file is written by one np.save, which comes after the state
\* file of every lambda state and after every energy evaluation, and before
\* the decorrelation; from then on the file is there and is never written
\* again. It has n_lambda rows of n_lambda series of total_iterations samples
\* and holds, at [k, l, n], the energy that was evaluated at lambda l on sample
\* n of state k, also where the decorrelation has since compacted the matrix
\* in memory.
C28_array_saved_once_raw ==
    /\ [](pc # "setup" =>
            LET saves == { i \in 1..Len(events) : events[i].call = "np.save" }
                npy   == PotentialFile(notebook)
            IN  /\ npy \in DOMAIN files <=> pc = "done" \/ Analysing
                /\ Cardinality(saves) = IF npy \in DOMAIN files THEN 1 ELSE 0
                /\ \A i \in saves :
                      /\ \A kk \in 0..(n_lambda - 1) :
                            \E j \in 1..(i - 1) :
                                events[j].call = "saveState" /\ events[j].k = kk
                      /\ \A j \in 1..Len(events) : j > i => events[j] = events[i]
                /\ npy \in DOMAIN files =>
                      /\ retained = << >> /\ pc = "done" => files[npy] = u_kln
                      /\ DOMAIN files[npy] = 0..(n_lambda - 1)
                      /\ \A kk \in DOMAIN files[npy] :
                            /\ DOMAIN files[npy][kk] = 0..(n_lambda - 1)
                            /\ \A ll \in DOMAIN files[npy][kk] :
                                  DOMAIN files[npy][kk][ll] = 0..(total_iterations - 1)
                      /\ \A j \in 1..Len(events) :
                            events[j].call = "getState" =>
                                files[npy][events[j].k][events[j].l][events[j].n]
                                   = ReducedPotential(
                                         events[j].microstate,
                                         setParameter(ContextParameters(system), Ctrl,
                                                      events[j].lam))
                      /\ Cardinality({ j \in 1..Len(events) : events[j].call = "getState" })
                            = n_lambda * n_lambda * total_iterations)
    /\ [][PotentialFile(notebook) \in DOMAIN files =>
             /\ PotentialFile(notebook) \in DOMAIN files'
             /\ files'[PotentialFile(notebook)] = files[PotentialFile(notebook)]]_vars

\* C28 witness: the decorrelation has compacted row 2 of the matrix in memory,
\* and the file still differs from it there.
C28_witness ==
    /\ pc = "mbar"
    /\ 2 \in DOMAIN retained
    /\ N_k[2] < total_iterations
    /\ \E ll \in DOMAIN u_kln[2] : \E nn \in DOMAIN u_kln[2][ll] :
          files[PotentialFile(notebook)][2][ll][nn] # u_kln[2][ll][nn]


----------------------------------------------------------------------------
(* The names of the kernel.                                                *)

\* C29: when the bulk electrostatics notebook is run top to bottom in a kernel
\* that was just started, every statement finds the names it reads bound by an
\* earlier statement, no NameError is raised, and build_folder is bound when
\* the statements that load the topology and the coordinates run.
C29_names_bound_before_use ==
    notebook = "elec_bulk" /\ pc \in {"run_all", "stopped", "finished"} =>
        /\ error # "NameError"
        /\ calls # << >> => Head(calls).uses \subseteq namespace
        /\ calls # << >> /\ "build_folder" \in Head(calls).uses =>
              "build_folder" \in namespace


----------------------------------------------------------------------------
(* The end state the two bulk legs share.                                  *)

\* C30: the model of the bulk electrostatics notebook at
\* lambda_electrostatics = 0 and the model the vdW notebook makes of the same
\* system at lambda_sterics = 1 have the same pair terms: every solute atom has
\* charge zero in both, every pair has the same charge product and, at every
\* distance, the same Lennard-Jones energy, in total and in its
\* CustomNonbondedForce part and its CustomBondForce part; the custom forces
\* hold the same particles, exclusions, interaction groups and bonds, and the
\* NonbondedForce the same particles and exceptions.
C30_bulk_legs_share_end_state ==
    (BuildDone /\ pc = "setup" /\ notebook = "elec_bulk") =>
        LET vdw  == SetupCell(SetupCalls("vdw_bulk"), "vdw_bulk", original,
                              molecule, solvent)
            ctxE == ContextAt("lambda_electrostatics", 0)
            ctxV == setParameter(ContextParameters(vdw), "lambda_sterics", Lam(10))
            nbE  == GetNonbonded(system)
            nbV  == GetNonbonded(vdw)
            Of(sys, type) == { f \in 1..Len(sys) : sys[f].type = type }
        IN  /\ \A i \in molecule :
                  /\ ParticleCharge(nbE, ctxE, i) = RZero
                  /\ ParticleCharge(nbV, ctxV, i) = RZero
            /\ \A p \in AllPairs :
                  /\ NonbondedChargeProd(nbE, ctxE, p[1], p[2])
                        = NonbondedChargeProd(nbV, ctxV, p[1], p[2])
                  /\ \A r \in Dists :
                        /\ PairLJ(system, ctxE, p[1], p[2], r)
                              = PairLJ(vdw, ctxV, p[1], p[2], r)
                        /\ CustomNonbondedPartLJ(system, ctxE, p[1], p[2], r, Len(system))
                              = CustomNonbondedPartLJ(vdw, ctxV, p[1], p[2], r, Len(vdw))
                        /\ BondPartLJ(system, p[1], p[2], r, Len(system))
                              = BondPartLJ(vdw, p[1], p[2], r, Len(vdw))
            /\ nbE.particles = nbV.particles
            /\ nbE.exceptions = nbV.exceptions
            /\ Cardinality(Of(system, "CustomNonbondedForce")) = 1
            /\ Cardinality(Of(vdw, "CustomNonbondedForce")) = 1
            /\ Cardinality(Of(system, "CustomBondForce")) = 1
            /\ Cardinality(Of(vdw, "CustomBondForce")) = 1
            /\ \A f \in Of(system, "CustomNonbondedForce") :
                  \A h \in Of(vdw, "CustomNonbondedForce") :
                      /\ system[f].particles = vdw[h].particles
                      /\ system[f].exclusions = vdw[h].exclusions
                      /\ system[f].groups = vdw[h].groups
                      /\ system[f].cutoff = vdw[h].cutoff
            /\ \A f \in Of(system, "CustomBondForce") :
                  \A h \in Of(vdw, "CustomBondForce") :
                      system[f].bonds = vdw[h].bonds

\* C30 witness: the set-up cell of the bulk electrostatics notebook has
\* finished for a solute that has a charged atom, a custom bond with a well
\* depth, and a Lennard-Jones energy with a solvent atom.
C30_witness ==
    /\ BuildDone /\ pc = "setup" /\ notebook = "elec_bulk"
    /\ \E i \in molecule : OriginalNonbonded.particles[i].charge # 0
    /\ \E f \in 1..Len(system) :
          /\ system[f].type = "CustomBondForce"
          /\ \E b \in DOMAIN system[f].bonds : system[f].bonds[b].epsilon # 0
    /\ \E i \in molecule : \E j \in solvent :
          PairLJ(system, ContextAt("lambda_electrostatics", 0), i, j, 1) # RZero
    /\ \E p \in AllPairs :
          /\ p[1] \in molecule /\ p[2] \in molecule
          /\ OriginalChargeProd(p[1], p[2]) # RZero

====
